---- MODULE Spec2Model ----
(***************************************************************************)
(* Model of the NASA multimodal archive demo:                              *)
(*   setup/01_nara_scrape.py     Acquirer    (main)                        *)
(*   setup/02_mp4_processing.py  Segmenter   (process_video_chunks)        *)
(*   setup/03_mp4_embedding.py   video ingestion                           *)
(*   setup/04_image_embedding.py document ingestion                        *)
(*   app.py                      query pipeline (search)                   *)
(* Each component has its own specification (SpecAcq, SpecSeg,             *)
(* SpecIngest, SpecSearch); the variables of the other components stay at  *)
(* their idle value. SpecSystem runs the ingestion and the query pipeline  *)
(* against one collection.                                                 *)
(***************************************************************************)
EXTENDS Integers, Sequences, FiniteSets, TLC

VARIABLES
    \* ---- Segmenter (02_mp4_processing.py), one video per behaviour
    segPc,            \* "probe" | "loop" | "write" | "done" | "probe_failed" |
                      \* "aborted" | "idle"
    video_file,       \* the duration of the mp4 file, in ticks
    duration,         \* float(probe['format']['duration']), in ticks
    chunk_duration,   \* CHUNK_DURATION, whole seconds
    seg_i,            \* enumerate index i of the chunk loop
    chunk_metadata,   \* chunk_metadata["chunks"]
    manifest,         \* the metadata JSON file: <<>> when absent, else <<chunks>>
    seg_run,          \* earlier runs of the script over the video
    seg_disk,         \* the audio and frame files on disk: "complete" | "partial"
    seg_failures,     \* failed ffmpeg.run calls so far
    seg_trace,        \* what the current run has done so far
    \* ---- Index Store (MongoDB collection nasa_archive)
    store,            \* the set of documents of the collection
    \* ---- Query pipeline (app.py)
    mongo,            \* the globals mongo_client, db, collection (TRUE: not None)
    searchPc,         \* position of the request inside search()
    request,          \* request.get_json()
    embedding,        \* get_embedding(query_text): "unset" | "None" | "empty" | "vec"
    vector_hits,      \* output of the $vectorSearch stage of the last aggregate
    pre_rerank,       \* results as returned by collection.aggregate
    results,          \* the local variable results
    rerank_outcome,   \* "not_called" | "ok" | "raised" | "index_error"
    rerank_texts,     \* documents=texts of the last voyage_client.rerank call
    response,         \* the (body, status) returned by search()
    calls,            \* calls made on behalf of the current request
    nreq,             \* requests received so far
    threads,          \* per request thread: its position inside search()
    clients_created,  \* MongoClient objects init_mongo has created
    \* ---- Ingestion (03_mp4_embedding.py, 04_image_embedding.py)
    videos,           \* the mp4 records on disk with their chunk manifests and media
    doc_files,        \* the metadata files of the document directories, in loop order
    w,                \* per worker: position and locals of the running script
    runs_done,        \* completed or aborted runs, per script
    svc_failed,       \* scripts one of whose runs had a failing service or store call
                      \* or ended on its configuration
    insert_count,     \* successful insert_one calls so far, per item or chunk
    computed_ids,     \* the record ids computed so far, per item or chunk
    \* ---- Acquirer (01_nara_scrape.py)
    acqPc,            \* "start" | "type" | "record" | "object" | "save" |
                      \* "complete" | "aborted" | "idle"
    catalog,          \* per media type, the hits the Catalog API answers with
    acq_run,          \* runs of the script so far
    acq_t,            \* position of the loop over MEDIA_TYPES
    acq_hits,         \* hits
    acq_r,            \* position of the loop over hits
    acq_o,            \* position of the loop over digital_objects
    record_data,      \* record_data['digitalObjects'], as the file names
    meta_files,       \* records_type_dir / f"{na_id}.json": "absent" or its content
    media_files,      \* download_type_dir / obj_filename: "absent" | "partial" | "complete"
    acq_trace         \* what the current run has done so far

segVars == <<segPc, video_file, duration, chunk_duration, seg_i, chunk_metadata, manifest,
             seg_run, seg_disk, seg_failures, seg_trace>>

searchVars == <<mongo, searchPc, request, embedding, vector_hits, pre_rerank,
                results, rerank_outcome, rerank_texts, response, calls, nreq>>

threadVars == <<threads, clients_created>>

\* the locals of the one request the sequential pipeline serves
searchLocals == <<searchPc, request, embedding, vector_hits, pre_rerank,
                  results, rerank_outcome, rerank_texts, response, calls, nreq>>

ingestVars == <<videos, doc_files, w, runs_done, svc_failed, insert_count, computed_ids>>

acqVars == <<acqPc, catalog, acq_run, acq_t, acq_hits, acq_r, acq_o, record_data,
             meta_files, media_files, acq_trace>>

vars == <<segVars, store, searchVars, threadVars, ingestVars, acqVars>>

\* what the Segmenter, the query pipeline and the ingestion never touch
notSeg == <<store, searchVars, threadVars, ingestVars, acqVars>>
notSearch == <<segVars, threadVars, ingestVars, acqVars>>
notIngest == <<segVars, searchVars, threadVars, acqVars>>
notAcq == <<segVars, store, searchVars, threadVars, ingestVars>>
notThreads == <<segVars, store, searchLocals, ingestVars, acqVars>>

-----------------------------------------------------------------------------
(* Bounds *)

\* Durations are floats in the source; the model keeps them as multiples of
\* 1/TicksPerSecond second.
TicksPerSecond == 2
MaxDurationSecs == 7
MaxChunkDuration == 3

\* Query pipeline: requests served one after the other, and the sizes of the
\* collection: 0..SmallStore documents, or VectorLimit + 1..VectorLimit + ExtraDocs.
MaxRequests == 2
SmallStore == 2
ExtraDocs == 1

\* Ingestion: chunks of the video, frames per chunk, runs of the scripts
MaxChunks == 2
FramesPerChunk == 2
MaxRuns == 2

\* Segmenter: runs of the script over the video, ffmpeg.run calls that fail
MaxSegRuns == 2
MaxExtractFailures == 1

\* Acquirer: hits of a Catalog API response, runs of the script
MaxHits == 2
MaxAcqRuns == 2

-----------------------------------------------------------------------------
(* Python helpers *)

Min(a, b) == IF a < b THEN a ELSE b

\* int(x) for a non-negative float x given in ticks: truncation to seconds.
PyInt(ticks) == ticks \div TicksPerSecond

\* list(range(0, stop, step)) for step > 0, as a sequence.
PyRange0(stop, step) ==
    [k \in 1..(IF stop <= 0 THEN 0 ELSE ((stop - 1) \div step) + 1) |-> (k - 1) * step]

-----------------------------------------------------------------------------
(* Acquirer: main() of 01_nara_scrape.py *)

MEDIA_TYPES == <<"mp4", "mp3", "jpg", "pdf", "ascii", "mov", "gif">>

\* the media types for which the catalog of a behaviour has records
CatalogTypes == {"mp4", "jpg"}

\* record_source of a hit: naId ("None" when the record has none) and the
\* objectFilename of each digital object ("" for an object without objectUrl
\* or objectFilename)
CatalogRecords ==
    { [naId |-> "A1", digitalObjects |-> <<"f1", "f2">>],
      [naId |-> "A2", digitalObjects |-> <<"", "f2">>],
      [naId |-> "A3", digitalObjects |-> <<>>],
      [naId |-> "None", digitalObjects |-> <<"f3">>] }

\* the answers of the Catalog API, the same in every run: item A1 is found
\* under mp4, and any MaxHits records under jpg
Catalogs ==
    { [t \in {MEDIA_TYPES[k] : k \in 1..Len(MEDIA_TYPES)} |->
          IF t = "mp4" THEN << [naId |-> "A1", digitalObjects |-> <<"f1">>] >>
          ELSE IF t = "jpg" THEN hits
          ELSE <<>>] :
        hits \in UNION { [1..n -> CatalogRecords] : n \in 0..MaxHits } }

MetaKeys == CatalogTypes \X {"A1", "A2", "A3", "None"}
FileKeys == CatalogTypes \X {"f1", "f2", "f3"}

\* records_file_path.exists()
MetadataExists_Never(files, media_type, na_id) == FALSE
MetadataExists(files, media_type, na_id) == files[<<media_type, na_id>>] # "absent"

\* file_path.exists()
FileExists_OnlyComplete(files, media_type, filename) ==
    files[<<media_type, filename>>] = "complete"
FileExists(files, media_type, filename) == files[<<media_type, filename>>] # "absent"

\* except requests.exceptions.RequestException, in download_file_requests
DownloadCatches_Nothing(exc) == FALSE
DownloadCatches(exc) == exc = "RequestException"

\* except requests.exceptions.RequestException / json.JSONDecodeError, in main
MainCatches(exc) == exc \in {"RequestException", "JSONDecodeError"}

\* requests.get(...) of download_file_requests: the file is written, or the
\* request fails before the file is opened, or the stream breaks after it was
DownloadOutcomes == {"ok", "http_error", "broken_stream"}

EmptyTrace ==
    [ api |-> [t \in CatalogTypes |-> "not_called"],  \* outcome of the API call
      persisted_before |-> {},  \* metadata files present when the run started
      visited |-> {},           \* <<type, hit>> reached by the loop over hits
      entered |-> {},           \* <<type, hit>> whose digital objects were gone through
      obj_visited |-> {},       \* <<type, hit, object>> reached
      failed_downloads |-> {},  \* <<type, hit, object>> whose download raised
      ops |-> {},               \* <<type, naId, "download" | "write">> done by the run
      reach_exists |-> FALSE,   \* the hit last reached had its metadata file
      item_ops |-> {} ]         \* downloads and writes for the hit last reached

AcqInit ==
    /\ acqPc = "start"
    /\ catalog \in Catalogs
    /\ acq_run = 0
    /\ acq_t = 0
    /\ acq_hits = <<>>
    /\ acq_r = 0
    /\ acq_o = 0
    /\ record_data = <<>>
    /\ meta_files = [k \in MetaKeys |-> "absent"]
    /\ media_files = [k \in FileKeys |-> "absent"]
    /\ acq_trace = EmptyTrace

AcqIdle ==
    /\ acqPc = "idle"
    /\ catalog = <<>>
    /\ acq_run = 0
    /\ acq_t = 0
    /\ acq_hits = <<>>
    /\ acq_r = 0
    /\ acq_o = 0
    /\ record_data = <<>>
    /\ meta_files = <<>>
    /\ media_files = <<>>
    /\ acq_trace = EmptyTrace

CurType == MEDIA_TYPES[acq_t]
CurRecord == acq_hits[acq_r]

\* python 01_nara_scrape.py
AcqStartRun ==
    /\ acqPc = "start"
    /\ acq_run < MaxAcqRuns
    /\ acqPc' = "type"
    /\ acq_t' = 1
    /\ acq_hits' = <<>>
    /\ acq_r' = 0
    /\ acq_o' = 0
    /\ record_data' = <<>>
    /\ acq_trace' = [EmptyTrace EXCEPT
                        !.persisted_before = {k \in MetaKeys : meta_files[k] # "absent"}]
    /\ UNCHANGED <<catalog, acq_run, meta_files, media_files>>
    /\ UNCHANGED notAcq

\* lines 91-121 and 184-190: the next media type and its Catalog API call
AcqSearchType ==
    /\ acqPc = "type"
    /\ acq_t <= Len(MEDIA_TYPES)
    /\ \E outcome \in {"ok", "RequestException", "JSONDecodeError"} :
          IF outcome = "ok"
             THEN /\ acq_trace' = IF CurType \in CatalogTypes
                                      THEN [acq_trace EXCEPT !.api[CurType] = "ok"]
                                      ELSE acq_trace
                  /\ IF catalog[CurType] = <<>>
                        THEN /\ acq_t' = acq_t + 1
                             /\ UNCHANGED <<acqPc, acq_hits, acq_r>>
                        ELSE /\ acq_hits' = catalog[CurType]
                             /\ acq_r' = 1
                             /\ acqPc' = "record"
                             /\ UNCHANGED acq_t
             ELSE /\ acq_trace' = IF CurType \in CatalogTypes
                                      THEN [acq_trace EXCEPT !.api[CurType] = "failed"]
                                      ELSE acq_trace
                  /\ IF MainCatches(outcome)
                        THEN acq_t' = acq_t + 1 /\ UNCHANGED acqPc
                        ELSE acqPc' = "aborted" /\ UNCHANGED acq_t
                  /\ UNCHANGED <<acq_hits, acq_r>>
    /\ UNCHANGED <<catalog, acq_run, acq_o, record_data, meta_files, media_files>>
    /\ UNCHANGED notAcq

\* line 192: the loop over MEDIA_TYPES is exhausted
AcqComplete ==
    /\ acqPc = "type"
    /\ acq_t > Len(MEDIA_TYPES)
    /\ acqPc' = "complete"
    /\ UNCHANGED <<catalog, acq_run, acq_t, acq_hits, acq_r, acq_o, record_data,
                   meta_files, media_files, acq_trace>>
    /\ UNCHANGED notAcq

\* lines 124-147: the next hit; one whose metadata file exists is skipped,
\* and so is one without digital objects
AcqRecord ==
    /\ acqPc = "record"
    /\ IF acq_r > Len(acq_hits)
          THEN /\ acqPc' = "type"
               /\ acq_t' = acq_t + 1
               /\ UNCHANGED <<acq_r, acq_o, record_data, acq_trace>>
          ELSE LET na_id == CurRecord.naId
                   exists == MetadataExists(meta_files, CurType, na_id)
                   here == [acq_trace EXCEPT
                               !.visited = @ \cup {<<acq_t, acq_r>>},
                               !.reach_exists = meta_files[<<CurType, na_id>>] # "absent",
                               !.item_ops = {}]
               IN  /\ UNCHANGED acq_t
                   /\ IF exists \/ CurRecord.digitalObjects = <<>>
                         THEN /\ acq_r' = acq_r + 1
                              /\ acq_trace' = here
                              /\ UNCHANGED <<acqPc, acq_o, record_data>>
                         ELSE /\ acqPc' = "object"
                              /\ acq_o' = 1
                              /\ record_data' = <<>>
                              /\ acq_trace' = [here EXCEPT !.entered = @ \cup {<<acq_t, acq_r>>}]
                              /\ UNCHANGED acq_r
    /\ UNCHANGED <<catalog, acq_run, acq_hits, meta_files, media_files>>
    /\ UNCHANGED notAcq

\* lines 150-173 and 56-73: the next digital object; it is added to the
\* metadata and downloaded unless its file exists. A RequestException is
\* caught in download_file_requests; one that is not would end the loop over
\* the hits in the handler of line 184.
AcqObject ==
    /\ acqPc = "object"
    /\ acq_o <= Len(CurRecord.digitalObjects)
    /\ LET filename == CurRecord.digitalObjects[acq_o]
           key == <<CurType, filename>>
           here == [acq_trace EXCEPT !.obj_visited = @ \cup {<<acq_t, acq_r, acq_o>>}]
           called == [here EXCEPT
                        !.ops = @ \cup {<<CurType, CurRecord.naId, "download">>},
                        !.item_ops = @ \cup {"download"}]
       IN  IF filename = ""
              THEN /\ acq_o' = acq_o + 1
                   /\ acq_trace' = here
                   /\ UNCHANGED <<acqPc, acq_t, record_data, media_files>>
           ELSE IF FileExists(media_files, CurType, filename)
              THEN /\ acq_o' = acq_o + 1
                   /\ record_data' = Append(record_data, filename)
                   /\ acq_trace' = here
                   /\ UNCHANGED <<acqPc, acq_t, media_files>>
           ELSE \E outcome \in DownloadOutcomes :
                   /\ record_data' = Append(record_data, filename)
                   /\ media_files' = [media_files EXCEPT ![key] =
                                         IF outcome = "ok" THEN "complete"
                                         ELSE IF outcome = "broken_stream" THEN "partial"
                                         ELSE @]
                   /\ IF outcome = "ok"
                         THEN /\ acq_o' = acq_o + 1
                              /\ acq_trace' = called
                              /\ UNCHANGED <<acqPc, acq_t>>
                         ELSE LET failed == [called EXCEPT !.failed_downloads =
                                                @ \cup {<<acq_t, acq_r, acq_o>>}]
                              IN  /\ acq_trace' = failed
                                  /\ IF DownloadCatches("RequestException")
                                        THEN /\ acq_o' = acq_o + 1
                                             /\ UNCHANGED <<acqPc, acq_t>>
                                     ELSE IF MainCatches("RequestException")
                                        THEN /\ acqPc' = "type"
                                             /\ acq_t' = acq_t + 1
                                             /\ UNCHANGED acq_o
                                        ELSE /\ acqPc' = "aborted"
                                             /\ UNCHANGED <<acq_t, acq_o>>
    /\ UNCHANGED <<catalog, acq_run, acq_hits, acq_r, meta_files>>
    /\ UNCHANGED notAcq

\* the loop over digital_objects is exhausted
AcqObjectsEnd ==
    /\ acqPc = "object"
    /\ acq_o > Len(CurRecord.digitalObjects)
    /\ acqPc' = "save"
    /\ UNCHANGED <<catalog, acq_run, acq_t, acq_hits, acq_r, acq_o, record_data,
                   meta_files, media_files, acq_trace>>
    /\ UNCHANGED notAcq

\* lines 175-179: if na_id: json.dump(record_data, f)
AcqSave ==
    /\ acqPc = "save"
    /\ LET na_id == CurRecord.naId
       IN  IF na_id # "None"
              THEN /\ meta_files' = [meta_files EXCEPT ![<<CurType, na_id>>] = record_data]
                   /\ acq_trace' = [acq_trace EXCEPT
                                       !.ops = @ \cup {<<CurType, na_id, "write">>},
                                       !.item_ops = @ \cup {"write"}]
              ELSE UNCHANGED <<meta_files, acq_trace>>
    /\ acqPc' = "record"
    /\ acq_r' = acq_r + 1
    /\ UNCHANGED <<catalog, acq_run, acq_t, acq_hits, acq_o, record_data, media_files>>
    /\ UNCHANGED notAcq

\* the script returns, or dies of an exception it does not catch
AcqEndRun ==
    /\ acqPc \in {"complete", "aborted"}
    /\ acq_run' = acq_run + 1
    /\ acqPc' = "start"
    /\ UNCHANGED <<catalog, acq_t, acq_hits, acq_r, acq_o, record_data,
                   meta_files, media_files, acq_trace>>
    /\ UNCHANGED notAcq

AcqNext ==
    \/ AcqStartRun
    \/ AcqSearchType
    \/ AcqComplete
    \/ AcqRecord
    \/ AcqObject
    \/ AcqObjectsEnd
    \/ AcqSave
    \/ AcqEndRun

-----------------------------------------------------------------------------
(* Segmenter: process_video_chunks, for one video file *)

\* range(0, int(duration), chunk_duration)
SegStarts(d, s) == PyRange0(PyInt(d), s)

\* end_time = start_time + chunk_duration; if end_time > duration: end_time = duration
\* (times in ticks)
SegEndTime(start_time, s, d) ==
    LET end_time == (start_time + s) * TicksPerSecond
    IN  IF end_time > d THEN d ELSE end_time

\* chunk_name = f"{video_name}_chunk_{i:03d}"
ChunkName(video_name, i) ==
    video_name \o "_chunk_" \o (IF i < 10 THEN "00" ELSE IF i < 100 THEN "0" ELSE "") \o ToString(i)

\* the output files of chunk i: chunk_output_path / f"{chunk_name}.mp3" and
\* chunk_output_path / f"{chunk_name}_frame_{j+1}.jpg"
AudioPath(i) == <<"mp3", i, 0>>
FramePath(i, j) == <<"jpg", i, j>>
ChunkOutputs(i) == {AudioPath(i)} \cup {FramePath(i, j) : j \in 1..FramesPerChunk}

\* frame_interval = chunk_duration / frames_per_chunk and
\* frame_time = start_time + (j * frame_interval), for j in range(frames_per_chunk);
\* start_time and s in seconds, the result in FramesPerChunk-ths of a tick
FrameTime(start_time, j, s) == (start_time * FramesPerChunk + j * s) * TicksPerSecond

\* audio_output_path.exists(), frame_output_path.exists()
OutputExists_Never(disk, path) == FALSE
OutputExists(disk, path) == path \in DOMAIN disk

\* except ffmpeg.Error, around each ffmpeg.run
ExtractCatches(exc) == exc = "ffmpeg.Error"

\* ffmpeg.run for one output: the file is written, or ffmpeg fails and leaves
\* no file, or fails and leaves a broken one
ExtractOutcomes == {"ok", "error", "error_partial"}

\* what the current run has done so far
SegNoTrace ==
    [ before |-> <<>>,           \* the output files when the run started
      manifest_before |-> <<>>,  \* the manifest when the run started
      extracted |-> {},          \* outputs ffmpeg was run for
      failed |-> {},             \* those for which it raised
      seeks |-> {},              \* <<i, j, frame_time>> of the frames among them
      manifest_writes |-> 0 ]    \* json.dump calls

SegInit ==
    /\ segPc = "probe"
    /\ video_file \in 0..(MaxDurationSecs * TicksPerSecond)
    /\ duration = 0
    /\ chunk_duration \in 1..MaxChunkDuration
    /\ seg_i = 0
    /\ chunk_metadata = <<>>
    /\ manifest = <<>>
    /\ seg_run = 0
    /\ seg_disk = <<>>
    /\ seg_failures = 0
    /\ seg_trace = SegNoTrace

SegIdle ==
    /\ segPc = "idle"
    /\ video_file = 0
    /\ duration = 0
    /\ chunk_duration = 0
    /\ seg_i = 0
    /\ chunk_metadata = <<>>
    /\ manifest = <<>>
    /\ seg_run = 0
    /\ seg_disk = <<>>
    /\ seg_failures = 0
    /\ seg_trace = SegNoTrace

\* ffmpeg.probe succeeds: duration = float(probe['format']['duration'])
SegProbeOk ==
    /\ segPc = "probe"
    /\ duration' = video_file
    /\ segPc' = "loop"
    /\ UNCHANGED <<video_file, chunk_duration, seg_i, chunk_metadata, manifest,
                   seg_run, seg_disk, seg_failures, seg_trace>>
    /\ UNCHANGED notSeg

\* ffmpeg.Error while probing: the video is skipped (continue), no manifest
SegProbeError ==
    /\ segPc = "probe"
    /\ segPc' = "probe_failed"
    /\ UNCHANGED <<video_file, duration, chunk_duration, seg_i, chunk_metadata, manifest,
                   seg_run, seg_disk, seg_failures, seg_trace>>
    /\ UNCHANGED notSeg

\* one iteration of: for i, start_time in enumerate(range(...)): the audio
\* clip and the frames that are not on disk are extracted, and the chunk is
\* appended to chunk_metadata["chunks"]. An exception of ffmpeg.run that is not
\* caught would end the script at the first failing output.
SegChunk ==
    /\ segPc = "loop"
    /\ seg_i < Len(SegStarts(duration, chunk_duration))
    /\ LET start_time == SegStarts(duration, chunk_duration)[seg_i + 1]
           missing == {o \in ChunkOutputs(seg_i) : ~OutputExists(seg_disk, o)}
       IN  \E res \in [missing -> ExtractOutcomes] :
              LET raising == {o \in missing : res[o] # "ok"}
                  fatal == {o \in raising : ~ExtractCatches("ffmpeg.Error")}
                  \* the outputs ffmpeg is run for: all, or up to the fatal one
                  run == {o \in missing : \A f \in fatal : o[3] <= f[3]}
                  written == {o \in run : res[o] # "error"}
              IN  /\ seg_failures + Cardinality(raising) <= MaxExtractFailures
                  /\ seg_failures' = seg_failures + Cardinality(raising)
                  /\ seg_disk' = [o \in DOMAIN seg_disk \cup written |->
                                     IF o \in written
                                        THEN IF res[o] = "ok" THEN "complete" ELSE "partial"
                                        ELSE seg_disk[o]]
                  /\ seg_trace' = [seg_trace EXCEPT
                                      !.extracted = @ \cup run,
                                      !.seeks = @ \cup
                                          { <<seg_i, j, FrameTime(start_time, j, chunk_duration)>> :
                                              j \in {k \in 0..(FramesPerChunk - 1) :
                                                        FramePath(seg_i, k + 1) \in run} },
                                      !.failed = @ \cup (run \cap raising)]
                  /\ IF fatal = {}
                        THEN /\ chunk_metadata' = Append(chunk_metadata,
                                    [ chunk_id    |-> ChunkName("v1", seg_i),
                                      chunk_index |-> seg_i,
                                      start_time  |-> start_time * TicksPerSecond,
                                      end_time    |-> SegEndTime(start_time, chunk_duration,
                                                                 duration),
                                      audio_file  |-> AudioPath(seg_i),
                                      frame_files |-> [j \in 1..FramesPerChunk |->
                                                          FramePath(seg_i, j)] ])
                             /\ seg_i' = seg_i + 1
                             /\ UNCHANGED segPc
                        ELSE /\ segPc' = "aborted"
                             /\ UNCHANGED <<chunk_metadata, seg_i>>
    /\ UNCHANGED <<video_file, duration, chunk_duration, manifest, seg_run>>
    /\ UNCHANGED notSeg

\* the loop is exhausted
SegLoopEnd ==
    /\ segPc = "loop"
    /\ seg_i >= Len(SegStarts(duration, chunk_duration))
    /\ segPc' = "write"
    /\ UNCHANGED <<video_file, duration, chunk_duration, seg_i, chunk_metadata, manifest,
                   seg_run, seg_disk, seg_failures, seg_trace>>
    /\ UNCHANGED notSeg

\* with open(metadata_path, "w") as f: json.dump(chunk_metadata, f)
SegWriteManifest ==
    /\ segPc = "write"
    /\ manifest' = <<chunk_metadata>>
    /\ seg_trace' = [seg_trace EXCEPT !.manifest_writes = @ + 1]
    /\ segPc' = "done"
    /\ UNCHANGED <<video_file, duration, chunk_duration, seg_i, chunk_metadata,
                   seg_run, seg_disk, seg_failures>>
    /\ UNCHANGED notSeg

\* python 02_mp4_processing.py once more, over the same video and output
\* directory
SegRerun ==
    /\ segPc \in {"done", "probe_failed", "aborted"}
    /\ seg_run + 1 < MaxSegRuns
    /\ seg_run' = seg_run + 1
    /\ segPc' = "probe"
    /\ seg_i' = 0
    /\ chunk_metadata' = <<>>
    /\ seg_trace' = [SegNoTrace EXCEPT !.before = seg_disk, !.manifest_before = manifest]
    /\ UNCHANGED <<video_file, duration, chunk_duration, manifest, seg_disk, seg_failures>>
    /\ UNCHANGED notSeg

SegNext ==
    \/ SegProbeOk
    \/ SegProbeError
    \/ SegChunk
    \/ SegLoopEnd
    \/ SegWriteManifest
    \/ SegRerun

-----------------------------------------------------------------------------
(* Index Store documents as the query pipeline sees them *)

\* "limit": 50 of the $vectorSearch stage
VectorLimit == 50

FileTypes == {"video_chunk", "mp4", "jpg"}

\* A document of the collection. _id is a string (written by the ingestion
\* scripts) or an ObjectId; embedding stands for the stored vector and is, for
\* the one query vector of a behaviour, its vectorSearchScore.
StoredDoc(i, file_type) ==
    [ _id       |-> [type |-> IF i % 2 = 0 THEN "ObjectId" ELSE "str", val |-> ToString(i)],
      naId      |-> i,
      title     |-> IF i % 3 = 0 THEN "None" ELSE "title",
      file_type |-> file_type,
      chunk_text_content |-> IF file_type = "video_chunk" THEN "transcript" ELSE "None",
      embedding |-> 1000 - i ]

\* The collections a behaviour of the query pipeline starts from: n documents,
\* the i-th nearest of kind k2 when i is a multiple of period, else of kind k1.
SearchStores ==
    { { StoredDoc(i, IF i % period = 0 THEN k2 ELSE k1) : i \in 1..n } :
        n \in (0..SmallStore) \cup ((VectorLimit + 1)..(VectorLimit + ExtraDocs)),
        k1 \in FileTypes, k2 \in FileTypes, period \in {2, VectorLimit + 1} }

-----------------------------------------------------------------------------
(* Query pipeline: search() of app.py *)

\* $meta vectorSearchScore of a document for the query vector
Score(doc) == doc.embedding

\* $vectorSearch: the `limit` nearest documents, by descending score
\* (numCandidates 200 covers every collection of the model)
VectorSearch(docs, limit) ==
    LET rank == [d \in docs |-> Cardinality({x \in docs : Score(x) > Score(d)}) + 1]
    IN  [k \in 1..Min(limit, Cardinality(docs)) |-> CHOOSE d \in docs : rank[d] = k]

\* mapped_file_types: 'mp4' also stands for 'video_chunk'
MappedFileTypes_NoExpansion(filter_file_types) ==
    { filter_file_types[k] : k \in 1..Len(filter_file_types) }
MappedFileTypes(filter_file_types) ==
    UNION { IF filter_file_types[k] = "mp4"
               THEN {"mp4", "video_chunk"}
               ELSE {filter_file_types[k]} : k \in 1..Len(filter_file_types) }

\* if filter_file_types and len(filter_file_types) > 0
HasFilter(req) == req.has_filter /\ Len(req.filter_file_types) > 0

\* $match: {"file_type": {"$in": mapped_file_types}}
MatchStage(docs, req) ==
    IF HasFilter(req)
        THEN LET types == MappedFileTypes(req.filter_file_types)
                 Keep(d) == d.file_type \in types
             IN  SelectSeq(docs, Keep)
        ELSE docs

\* $project: the display fields and the score; chunk_text_content and
\* embedding are not projected (source_s3_path(s), start_timestamp and
\* source_file_names are display fields the model does not carry)
ProjectStage_WithEmbedding(docs) ==
    [k \in 1..Len(docs) |->
        [ _id       |-> docs[k]._id,
          naId      |-> docs[k].naId,
          title     |-> docs[k].title,
          file_type |-> docs[k].file_type,
          embedding |-> docs[k].embedding,
          score     |-> Score(docs[k]) ]]
ProjectStage(docs) ==
    [k \in 1..Len(docs) |->
        [ _id       |-> docs[k]._id,
          naId      |-> docs[k].naId,
          title     |-> docs[k].title,
          file_type |-> docs[k].file_type,
          score     |-> Score(docs[k]) ]]

\* collection.aggregate(pipeline): $vectorSearch, then $match, then $project
Aggregate_MatchFirst(docs, req) ==
    LET Keep(d) == ~HasFilter(req) \/ d.file_type \in MappedFileTypes(req.filter_file_types)
    IN  ProjectStage(VectorSearch({d \in docs : Keep(d)}, VectorLimit))
Aggregate(docs, req) ==
    ProjectStage(MatchStage(VectorSearch(docs, VectorLimit), req))

\* if not data or 'query_text' not in data
MissingInput_Never(req) == FALSE
MissingInput(req) == ~req.has_data \/ ~req.has_query_text

\* data.get('use_reranker', True)
UseReranker(req) == req.use_reranker \in {"absent", "true"}

\* if use_reranker and len(results) > 1
ShouldRerank_AnyResult(req, res) == UseReranker(req) /\ Len(res) > 0
ShouldRerank(req, res) == UseReranker(req) /\ Len(res) > 1

\* results[r.index] for one index of the response (Python indexing: negative
\* indices count from the end)
IndexOk(res, idx) == idx \in (0 - Len(res))..(Len(res) - 1)
PyIndex_NoOffset(res, idx) == res[IF idx <= 0 THEN 1 ELSE idx]
PyIndex(res, idx) == IF idx >= 0 THEN res[idx + 1] ELSE res[Len(res) + idx + 1]

\* rerank_response.results, as the sequence of .index values: the Reranker
\* returns every document once (no top_k is passed), or an index outside the
\* list
RerankResponses(n) ==
    { [k \in 1..n |-> k - 1],                  \* same order
      [k \in 1..n |-> n - k],                  \* reversed
      [k \in 1..n |-> k % n],                  \* rotated
      [k \in 1..n |-> IF k = n THEN n ELSE k - 1] }   \* last index out of range

\* the try block around voyage_client.rerank: the reordered list, or the
\* list as it was when the call or the indexing raised
AfterRerank_PartialOnError(res, raised, indices) ==
    IF raised THEN res
    ELSE LET ok == SelectSeq(indices, LAMBDA i : IndexOk(res, i))
         IN  [k \in 1..Len(ok) |-> PyIndex(res, ok[k])]
AfterRerank(res, raised, indices) ==
    IF raised \/ \E k \in 1..Len(indices) : ~IndexOk(res, indices[k])
        THEN res
        ELSE [k \in 1..Len(indices) |-> PyIndex(res, indices[k])]

\* r.get(key): None when the result has no such key
PyGet(r, key) == IF key \in DOMAIN r THEN r[key] ELSE "None"

\* truth value of a string or None
Truthy(v) == v \notin {"None", ""}

\* text = r.get("chunk_text_content") or r.get("title") or ""
RerankText(r) ==
    IF Truthy(PyGet(r, "chunk_text_content")) THEN PyGet(r, "chunk_text_content")
    ELSE IF Truthy(PyGet(r, "title")) THEN PyGet(r, "title")
    ELSE ""

\* texts, built from the results of the aggregation
RerankTexts(res) == [k \in 1..Len(res) |-> RerankText(res[k])]

\* str(result['_id'])
PyStr(id) == [type |-> "str", val |-> id.val]

NormalizeIds(res) == [k \in 1..Len(res) |-> [res[k] EXCEPT !._id = PyStr(@)]]

\* calls made for the current request; raised names the store call that raised
NoCalls == [embed |-> 0, init_mongo |-> 0, count_documents |-> 0, aggregate |-> 0,
            rerank |-> 0, raised |-> "none"]
NoResponse == [status |-> 0, error |-> "", body |-> <<>>]
NoRequest == [has_data |-> FALSE, has_query_text |-> FALSE, has_filter |-> FALSE,
              filter_file_types |-> <<>>, use_reranker |-> "absent"]

ErrorResponse(status, msg) == [status |-> status, error |-> msg, body |-> <<>>]

FilterChoices == { <<>>, <<"jpg">>, <<"mp4">>, <<"mp4", "jpg">>, <<"pdf">> }

\* the JSON bodies a client sends: none (or {}), one without query_text, or
\* a full request
Requests ==
    { NoRequest, [NoRequest EXCEPT !.has_data = TRUE, !.use_reranker = "false"] }
    \cup { [ has_data |-> TRUE, has_query_text |-> TRUE, has_filter |-> FALSE,
             filter_file_types |-> <<>>, use_reranker |-> ur ] :
           ur \in {"absent", "true", "false"} }
    \cup { [ has_data |-> TRUE, has_query_text |-> TRUE, has_filter |-> TRUE,
             filter_file_types |-> f, use_reranker |-> ur ] :
           f \in FilterChoices, ur \in {"absent", "true", "false"} }

SearchInit ==
    /\ store \in SearchStores
    /\ mongo \in { [mongo_client |-> b, db |-> b, collection |-> b] : b \in BOOLEAN }
    /\ searchPc = "idle"
    /\ request = NoRequest
    /\ embedding = "unset"
    /\ vector_hits = <<>>
    /\ pre_rerank = <<>>
    /\ results = <<>>
    /\ rerank_outcome = "not_called"
    /\ rerank_texts = <<>>
    /\ response = NoResponse
    /\ calls = NoCalls
    /\ nreq = 0

SearchIdle ==
    /\ mongo = [mongo_client |-> FALSE, db |-> FALSE, collection |-> FALSE]
    /\ searchPc = "off"
    /\ request = NoRequest
    /\ embedding = "unset"
    /\ vector_hits = <<>>
    /\ pre_rerank = <<>>
    /\ results = <<>>
    /\ rerank_outcome = "not_called"
    /\ rerank_texts = <<>>
    /\ response = NoResponse
    /\ calls = NoCalls
    /\ nreq = 0

\* return jsonify({'error': msg}), status
Reply(resp) ==
    /\ response' = resp
    /\ searchPc' = "done"

\* data = request.get_json()
SearchReceive ==
    /\ searchPc \in {"idle", "done"}
    /\ nreq < MaxRequests
    /\ nreq' = nreq + 1
    /\ request' \in Requests
    /\ searchPc' = "validate"
    /\ embedding' = "unset"
    /\ vector_hits' = <<>>
    /\ pre_rerank' = <<>>
    /\ results' = <<>>
    /\ rerank_outcome' = "not_called"
    /\ rerank_texts' = <<>>
    /\ response' = NoResponse
    /\ calls' = NoCalls
    /\ UNCHANGED <<store, mongo>>
    /\ UNCHANGED notSearch

\* lines 73-79: the check, then data['query_text'] (which raises into the
\* handler of line 202 when there is no such key)
SearchValidate ==
    /\ searchPc = "validate"
    /\ IF MissingInput(request)
          THEN Reply(ErrorResponse(400, "query_text is required"))
          ELSE IF ~(request.has_data /\ request.has_query_text)
                  THEN Reply(ErrorResponse(500, "Internal server error"))
                  ELSE searchPc' = "embed" /\ UNCHANGED response
    /\ UNCHANGED <<store, mongo, request, embedding, vector_hits, pre_rerank, results,
                   rerank_outcome, rerank_texts, calls, nreq>>
    /\ UNCHANGED notSearch

\* if not embedding
EmbeddingFailed_Unchecked(e) == FALSE
EmbeddingFailed(e) == e \in {"None", "empty"}

\* lines 83-86: get_embedding returns the vector, or None when the Embedder
\* raised
SearchEmbed ==
    /\ searchPc = "embed"
    /\ calls' = [calls EXCEPT !.embed = @ + 1]
    /\ \E e \in {"vec", "None", "empty"} :
          /\ embedding' = e
          /\ IF EmbeddingFailed(e)
                THEN Reply(ErrorResponse(500, "Failed to generate embedding"))
                ELSE searchPc' = "connect" /\ UNCHANGED response
    /\ UNCHANGED <<store, mongo, request, vector_hits, pre_rerank, results,
                   rerank_outcome, rerank_texts, nreq>>
    /\ UNCHANGED notSearch

\* lines 138-142: if collection is None: init_mongo()
SearchConnect ==
    /\ searchPc = "connect"
    /\ IF mongo.collection
          THEN /\ searchPc' = "aggregate"
               /\ UNCHANGED <<mongo, response, calls>>
          ELSE /\ calls' = [calls EXCEPT !.init_mongo = @ + 1]
               /\ \E connected \in BOOLEAN :
                     IF connected
                        THEN /\ mongo' = [mongo_client |-> TRUE, db |-> TRUE, collection |-> TRUE]
                             /\ searchPc' = "aggregate"
                             /\ UNCHANGED response
                        ELSE /\ Reply(ErrorResponse(500, "Database connection failed"))
                             /\ UNCHANGED mongo
    /\ UNCHANGED <<store, request, embedding, vector_hits, pre_rerank, results,
                   rerank_outcome, rerank_texts, nreq>>
    /\ UNCHANGED notSearch

\* lines 147-158: count_documents twice, then aggregate; any of them raising
\* ends in the handler of line 202
SearchAggregate ==
    /\ searchPc = "aggregate"
    /\ \E raises \in {"none", "count_documents", "aggregate"} :
          /\ calls' = [calls EXCEPT
                         !.count_documents = @ + (IF raises = "count_documents" THEN 1 ELSE 2),
                         !.aggregate = @ + (IF raises = "count_documents" THEN 0 ELSE 1),
                         !.raised = raises]
          /\ IF raises = "none" /\ embedding = "vec"
                THEN /\ vector_hits' = VectorSearch(store, VectorLimit)
                     /\ results' = Aggregate(store, request)
                     /\ pre_rerank' = results'
                     /\ searchPc' = "rerank"
                     /\ UNCHANGED response
                ELSE /\ Reply(ErrorResponse(500, "Internal server error"))
                     /\ UNCHANGED <<vector_hits, results, pre_rerank>>
    /\ UNCHANGED <<store, mongo, request, embedding, rerank_outcome, rerank_texts, nreq>>
    /\ UNCHANGED notSearch

\* lines 160-182
SearchRerank ==
    /\ searchPc = "rerank"
    /\ IF ShouldRerank(request, results)
          THEN /\ calls' = [calls EXCEPT !.rerank = @ + 1]
               /\ rerank_texts' = RerankTexts(results)
               /\ \E raised \in BOOLEAN, indices \in RerankResponses(Len(results)) :
                     /\ results' = AfterRerank(results, raised, indices)
                     /\ rerank_outcome' =
                           IF raised THEN "raised"
                           ELSE IF \E k \in 1..Len(indices) : ~IndexOk(results, indices[k])
                                   THEN "index_error" ELSE "ok"
          ELSE UNCHANGED <<calls, results, rerank_outcome, rerank_texts>>
    /\ searchPc' = "respond"
    /\ UNCHANGED <<store, mongo, request, embedding, vector_hits, pre_rerank, response, nreq>>
    /\ UNCHANGED notSearch

\* lines 194-200
SearchRespond ==
    /\ searchPc = "respond"
    /\ results' = NormalizeIds(results)
    /\ Reply([status |-> 200, error |-> "", body |-> results'])
    /\ UNCHANGED <<store, mongo, request, embedding, vector_hits, pre_rerank,
                   rerank_outcome, rerank_texts, calls, nreq>>
    /\ UNCHANGED notSearch

SearchNext ==
    \/ SearchReceive
    \/ SearchValidate
    \/ SearchEmbed
    \/ SearchConnect
    \/ SearchAggregate
    \/ SearchRerank
    \/ SearchRespond

-----------------------------------------------------------------------------
(* Query pipeline: requests served by concurrent threads *)

\* the threads of the web server that run search() at the same time
Threads == {1, 2}

HandleUnset == [mongo_client |-> FALSE, db |-> FALSE, collection |-> FALSE]
HandleSet == [mongo_client |-> TRUE, db |-> TRUE, collection |-> TRUE]

IdleThread == [pc |-> "idle", served |-> 0, inits |-> 0, queried_unset |-> FALSE]

\* the process starts: init_mongo() of the __main__ block has set the
\* globals, or it has not (no connection string yet, or the application is
\* served by a WSGI server and the block never runs)
ThreadsInit ==
    /\ mongo \in {HandleUnset, HandleSet}
    /\ threads = [t \in Threads |-> IdleThread]
    /\ clients_created = IF mongo = HandleSet THEN 1 ELSE 0

ThreadsIdle ==
    /\ threads = [t \in Threads |-> IdleThread]
    /\ clients_created = 0

\* lines 68-136: the request is read and validated, the query is embedded and
\* the pipeline is built; none of it reads or writes the globals. A request
\* that fails before line 138 is answered without reaching the store.
ThreadReceive(t) ==
    /\ threads[t].pc = "idle"
    /\ threads[t].served < MaxRequests
    /\ \E reaches_store \in BOOLEAN :
          threads' = [threads EXCEPT ![t].pc = IF reaches_store THEN "check" ELSE "done"]
    /\ UNCHANGED <<mongo, clients_created>>
    /\ UNCHANGED notThreads

\* line 138: if collection is None
CollectionIsNone(handle) == ~handle.collection

ThreadCheck(t) ==
    /\ threads[t].pc = "check"
    /\ threads' = [threads EXCEPT ![t].pc =
                      IF CollectionIsNone(mongo) THEN "init_client" ELSE "query"]
    /\ UNCHANGED <<mongo, clients_created>>
    /\ UNCHANGED notThreads

\* init_mongo, lines 28-34: without a connection string, or when MongoClient
\* raises, it returns False and search() answers 500; else the global
\* mongo_client is assigned a new client
ThreadInitClient(t) ==
    /\ threads[t].pc = "init_client"
    /\ \E outcome \in {"ok", "no_connection_string", "raised"} :
          IF outcome = "ok"
             THEN /\ mongo' = [mongo EXCEPT !.mongo_client = TRUE]
                  /\ clients_created' = clients_created + 1
                  /\ threads' = [threads EXCEPT ![t].pc = "init_db", ![t].inits = @ + 1]
             ELSE /\ threads' = [threads EXCEPT ![t].pc = "done"]
                  /\ UNCHANGED <<mongo, clients_created>>
    /\ UNCHANGED notThreads

\* init_mongo, line 35: db = mongo_client.ts_multimodal_demo
ThreadInitDb(t) ==
    /\ threads[t].pc = "init_db"
    /\ mongo' = [mongo EXCEPT !.db = TRUE]
    /\ threads' = [threads EXCEPT ![t].pc = "init_collection"]
    /\ UNCHANGED clients_created
    /\ UNCHANGED notThreads

\* init_mongo, lines 36-37: collection = db.nasa_archive; return True
ThreadInitCollection(t) ==
    /\ threads[t].pc = "init_collection"
    /\ mongo' = [mongo EXCEPT !.collection = TRUE]
    /\ threads' = [threads EXCEPT ![t].pc = "query"]
    /\ UNCHANGED clients_created
    /\ UNCHANGED notThreads

\* lines 147-158: count_documents and aggregate on the global collection
ThreadQuery(t) ==
    /\ threads[t].pc = "query"
    /\ threads' = [threads EXCEPT ![t].pc = "done",
                                   ![t].queried_unset = @ \/ mongo # HandleSet]
    /\ UNCHANGED <<mongo, clients_created>>
    /\ UNCHANGED notThreads

\* the response is returned and the thread takes the next request
ThreadReturn(t) ==
    /\ threads[t].pc = "done"
    /\ threads' = [threads EXCEPT ![t].pc = "idle", ![t].served = @ + 1]
    /\ UNCHANGED <<mongo, clients_created>>
    /\ UNCHANGED notThreads

ThreadsNext ==
    \E t \in Threads :
        \/ ThreadReceive(t)
        \/ ThreadCheck(t)
        \/ ThreadInitClient(t)
        \/ ThreadInitDb(t)
        \/ ThreadInitCollection(t)
        \/ ThreadQuery(t)
        \/ ThreadReturn(t)

-----------------------------------------------------------------------------
(* Ingestion: the inputs on disk *)

Workers == {1}

\* the processes that can run the scripts at the same time; the second one
\* stays idle where the runs follow one another
Processes == {1, 2}

\* a chunk of a manifest: whether its audio file exists and, per frame file,
\* whether get_pil_image can open it
ChunkMedia ==
    { [audio_exists |-> a, frames |-> f] :
        a \in {TRUE},
        f \in { [j \in 1..FramesPerChunk |-> TRUE],
                [j \in 1..FramesPerChunk |-> FALSE],
                [j \in 1..FramesPerChunk |-> j = FramesPerChunk] } }
    \cup { [audio_exists |-> FALSE, frames |-> [j \in 1..FramesPerChunk |-> TRUE]] }

\* the mp4 records, in loop order. readable: the record's metadata JSON loads;
\* has_manifest: the Segmenter wrote a chunk manifest; manifest_loads: that
\* manifest is JSON with a 'chunks' list. One record with one mp4 object, or
\* a first record that cannot be read (or whose manifest cannot) before it.
GoodVideo(n, m) ==
    [ naId |-> "N1", video_name |-> "v1", readable |-> TRUE,
      has_manifest |-> TRUE, manifest_loads |-> TRUE,
      chunks |-> [k \in 1..n |-> [chunk_id |-> ChunkName("v1", k - 1),
                                  chunk_index |-> k - 1,
                                  audio_exists |-> m[k].audio_exists,
                                  frames |-> m[k].frames]] ]

BrokenVideo(readable, manifest_loads) ==
    [ naId |-> "N0", video_name |-> "v0", readable |-> readable,
      has_manifest |-> TRUE, manifest_loads |-> manifest_loads, chunks |-> <<>> ]

AllFrames == [audio_exists |-> TRUE, frames |-> [j \in 1..FramesPerChunk |-> TRUE]]

VideoWorlds ==
    { << [GoodVideo(1, [k \in 1..MaxChunks |-> AllFrames]) EXCEPT
             !.has_manifest = FALSE, !.chunks = <<>>] >> }
    \cup { << GoodVideo(n, m) >> : n \in 1..MaxChunks, m \in [1..MaxChunks -> ChunkMedia] }
    \cup { << BrokenVideo(r, ~r), GoodVideo(1, [k \in 1..MaxChunks |-> AllFrames]) >> :
             r \in BOOLEAN }

\* the metadata files of the jpg and pdf directories, in loop order. readable:
\* the file is JSON; images: the number of images the digital objects of the
\* record load to
DocWorlds ==
    { << [dir |-> "jpg", naId |-> "N2", readable |-> TRUE, images |-> i1],
         [dir |-> "pdf", naId |-> n2, readable |-> TRUE, images |-> i2] >> :
        i1 \in {0, 1}, n2 \in {"N2", "N3"}, i2 \in {0, 2} }
    \cup { << [dir |-> "jpg", naId |-> "N2", readable |-> FALSE, images |-> 0],
              [dir |-> "pdf", naId |-> "N3", readable |-> TRUE, images |-> 2] >> }

-----------------------------------------------------------------------------
(* Ingestion: the scripts *)

StrId(s) == [type |-> "str", val |-> s]

\* "_id": f"{na_id}_{chunk_id}"
VideoRecordId_Sequential(na_id, chunk_id) ==
    StrId(na_id \o "_" \o ToString(Cardinality(store)))
VideoRecordId(na_id, chunk_id) == StrId(na_id \o "_" \o chunk_id)

\* "_id": f"{na_id}"
DocRecordId(na_id) == StrId(na_id)

\* collection.find_one({'_id': id})
ChunkAlreadyEmbedded_Never(docs, id) == FALSE
ChunkAlreadyEmbedded(docs, id) == \E d \in docs : d._id = id

DocumentKinds == {"pdf", "jpg", "gif"}

\* collection.find_one({'naId': na_id, 'file_type': {'$in': ['pdf', 'jpg', 'gif']}})
ItemAlreadyEmbedded_Never(docs, na_id) == FALSE
ItemAlreadyEmbedded(docs, na_id) ==
    \E d \in docs : d.naId = na_id /\ d.file_type \in DocumentKinds

\* input_content = [transcript] + the frames get_pil_image could open
InputContent(chunk) ==
    <<"text">> \o SelectSeq([j \in 1..Len(chunk.frames) |->
                                IF chunk.frames[j] THEN "image" ELSE "none"],
                            LAMBDA part : part = "image")

\* the negation of: if len(input_content) < 2
EnoughContent_TranscriptOnly(input_content) == Len(input_content) >= 1
EnoughContent(input_content) == Len(input_content) >= 2

\* if not transcript: None (transcribe_audio_whisper caught an exception) or
\* an empty text
TranscriptionFailed_NoneOnly(transcript) == transcript = "None"
TranscriptionFailed(transcript) == transcript \in {"None", ""}

\* the texts Whisper returns for an audio clip
Transcripts == {"text", "other text"}

\* result.embeddings[0] of voyage_client.multimodal_embed, as the score the
\* vector has for the query of a behaviour: it depends on the content embedded
VideoEmbedding(chunk, transcript) ==
    100 + 10 * chunk.chunk_index + (IF transcript = "text" THEN 0 ELSE 1)
DocEmbedding(file) ==
    (IF file.naId = "N2" THEN 10 ELSE 20) + file.images

\* mongo_doc of the video script
VideoMongoDoc_AutoId(video, chunk, transcript) ==
    [ _id       |-> [type |-> "ObjectId", val |-> ToString(Cardinality(store))],
      naId      |-> video.naId,
      title     |-> "title",
      file_type |-> "video_chunk",
      chunk_text_content |-> transcript,
      embedding |-> VideoEmbedding(chunk, transcript) ]
VideoMongoDoc(video, chunk, transcript) ==
    [ _id       |-> VideoRecordId(video.naId, chunk.chunk_id),
      naId      |-> video.naId,
      title     |-> "title",
      file_type |-> "video_chunk",
      chunk_text_content |-> transcript,
      embedding |-> VideoEmbedding(chunk, transcript) ]

\* mongo_doc of the document script: file_type is the directory name
DocMongoDoc(file) ==
    [ _id       |-> DocRecordId(file.naId),
      naId      |-> file.naId,
      title     |-> "title",
      file_type |-> file.dir,
      chunk_text_content |-> "None",
      embedding |-> DocEmbedding(file) ]

\* insert_one raises DuplicateKeyError on an _id the collection holds
DuplicateKey_Never(docs, doc) == FALSE
DuplicateKey(docs, doc) == \E d \in docs : d._id = doc._id

\* the collection after an acknowledged collection.insert_one(mongo_doc)
InsertOne_Overwrite(docs, doc) == {doc}
InsertOne(docs, doc) == docs \cup {doc}

\* the item or chunk a script is working on, as the key of insert_count
VideoUnit(video, chunk) == <<video.naId, chunk.chunk_id>>
DocUnit(file) == <<file.naId, "document">>
Units ==
    { <<"N1", ChunkName("v1", k - 1)>> : k \in 1..MaxChunks }
    \cup { <<n, "document">> : n \in {"N2", "N3"} }

\* the frame files of a chunk that get_pil_image opens
Loadable(chunk) == { j \in 1..Len(chunk.frames) : chunk.frames[j] }

IdleWorker ==
    [ pc |-> "idle", script |-> "none", video_i |-> 0, chunk_i |-> 0, file_i |-> 0,
      transcript |-> "None",
      \* bookkeeping for the properties
      configured |-> FALSE,       \* the run got past its configuration checks
      nth |-> 0,                  \* earlier runs of the same script
      clean_before |-> TRUE,      \* none of them had a failing call
      unit |-> <<"none", "none">>,  \* the chunk or item last reached
      unit_images |-> 0,          \* the images that load for it
      reach_exists |-> FALSE,     \* it had a record when it was reached
      unit_calls |-> {},          \* services called (and, for an item, images
                                  \* loaded) for the current unit
      embed_parts |-> 0,          \* content parts of the last Embedder call
      inserted |-> {},            \* units inserted by this run
      rejected |-> {},            \* units whose insert met a duplicate _id
      silent |-> {} ]             \* chunks Whisper returned an empty text for,
                                  \* in this run or an earlier one

IngestInit ==
    /\ store = {}
    /\ videos \in VideoWorlds
    /\ doc_files \in DocWorlds
    /\ w = [p \in Processes |-> IdleWorker]
    /\ runs_done = [video |-> 0, doc |-> 0]
    /\ svc_failed = {}
    /\ insert_count = [u \in Units |-> 0]
    /\ computed_ids = [u \in Units |-> {}]

IngestIdle ==
    /\ videos = <<>>
    /\ doc_files = <<>>
    /\ w = [p \in Processes |-> IdleWorker]
    /\ runs_done = [video |-> 0, doc |-> 0]
    /\ svc_failed = {}
    /\ insert_count = [u \in Units |-> 0]
    /\ computed_ids = [u \in Units |-> {}]

CurVideo(p) == videos[w[p].video_i]
CurChunk(p) == CurVideo(p).chunks[w[p].chunk_i]
CurFile(p) == doc_files[w[p].file_i]

\* main(): the script starts; missing credentials, a failing MongoClient or a
\* missing records directory end the run before any work
StartRun(p) ==
    /\ w[p].pc = "idle"
    /\ runs_done.video + runs_done.doc < MaxRuns
    /\ \E script \in {"video", "doc"}, configured \in BOOLEAN :
          /\ w' = [w EXCEPT ![p] =
                  [ IdleWorker EXCEPT
                      !.pc = IF ~configured THEN "finished"
                             ELSE IF script = "video" THEN "video" ELSE "file",
                      !.script = script,
                      !.configured = configured,
                      !.video_i = 1, !.chunk_i = 1, !.file_i = 1,
                      !.nth = runs_done[script],
                      !.silent = w[p].silent,
                      !.clean_before = script \notin svc_failed ]]
          /\ svc_failed' = IF configured THEN svc_failed ELSE svc_failed \cup {script}
    /\ UNCHANGED <<store, videos, doc_files, runs_done, insert_count, computed_ids>>
    /\ UNCHANGED notIngest

\* the script returns (or dies of an exception it does not catch)
EndRun(p) ==
    /\ w[p].pc \in {"finished", "aborted"}
    /\ runs_done' = [runs_done EXCEPT ![w[p].script] = @ + 1]
    /\ w' = [w EXCEPT ![p] = [@ EXCEPT !.pc = "idle"]]
    /\ UNCHANGED <<store, videos, doc_files, svc_failed, insert_count, computed_ids>>
    /\ UNCHANGED notIngest

\* 03, lines 134-172: the next record and its mp4 object. A record whose
\* metadata cannot be read is skipped (try, lines 135-140), and so is an
\* object without a chunk manifest; json.load of the manifest (lines 171-172)
\* is outside every try block, so when it raises the script dies
VideoNextObject(p) ==
    /\ w[p].pc = "video"
    /\ IF w[p].video_i > Len(videos)
          THEN w' = [w EXCEPT ![p] = [@ EXCEPT !.pc = "finished"]]
          ELSE IF ~CurVideo(p).readable \/ ~CurVideo(p).has_manifest
                  THEN w' = [w EXCEPT ![p] = [@ EXCEPT !.video_i = @ + 1]]
          ELSE IF ~CurVideo(p).manifest_loads
                  THEN w' = [w EXCEPT ![p] = [@ EXCEPT !.pc = "aborted"]]
                  ELSE w' = [w EXCEPT ![p] = [@ EXCEPT !.pc = "chunk", !.chunk_i = 1]]
    /\ UNCHANGED <<store, videos, doc_files, runs_done, svc_failed, insert_count, computed_ids>>
    /\ UNCHANGED notIngest

\* 03, lines 175-181: the next chunk and the lookup of its record id; find_one
\* is outside every try block, so when it raises the script dies
VideoLookup(p) ==
    /\ w[p].pc = "chunk"
    /\ IF w[p].chunk_i > Len(CurVideo(p).chunks)
          THEN /\ w' = [w EXCEPT ![p] = [@ EXCEPT !.pc = "video", !.video_i = @ + 1]]
               /\ UNCHANGED <<svc_failed, computed_ids>>
          ELSE \E raises \in BOOLEAN :
                  LET id == VideoRecordId(CurVideo(p).naId, CurChunk(p).chunk_id)
                      unit == VideoUnit(CurVideo(p), CurChunk(p))
                      here == [w[p] EXCEPT
                                 !.unit = VideoUnit(CurVideo(p), CurChunk(p)),
                                 !.unit_images = Cardinality(Loadable(CurChunk(p))),
                                 !.reach_exists = \E d \in store : d._id = id,
                                 !.unit_calls = {},
                                 !.embed_parts = 0,
                                 !.transcript = "None"]
                  IN  /\ computed_ids' = [computed_ids EXCEPT ![unit] = @ \cup {id}]
                      /\ IF raises
                            THEN /\ w' = [w EXCEPT ![p] = [here EXCEPT !.pc = "aborted"]]
                                 /\ svc_failed' = svc_failed \cup {"video"}
                            ELSE /\ UNCHANGED svc_failed
                                 /\ IF ChunkAlreadyEmbedded(store, id)
                                       THEN w' = [w EXCEPT ![p] = [here EXCEPT !.chunk_i = @ + 1]]
                                       ELSE w' = [w EXCEPT ![p] = [here EXCEPT !.pc = "audio"]]
    /\ UNCHANGED <<store, videos, doc_files, runs_done, insert_count>>
    /\ UNCHANGED notIngest

\* 03, lines 185-195: without the audio file the chunk is skipped; Whisper
\* returns the text, an empty text, or None when it raised. noted: the
\* bookkeeping remembers the chunks with an empty text
Transcribe(p, noted) ==
    /\ w[p].pc = "audio"
    /\ IF ~CurChunk(p).audio_exists
          THEN /\ w' = [w EXCEPT ![p] = [@ EXCEPT !.pc = "chunk", !.chunk_i = @ + 1]]
               /\ UNCHANGED svc_failed
          ELSE \E transcript \in Transcripts \cup {"", "None"} :
                  LET called == [w[p] EXCEPT !.unit_calls = @ \cup {"transcribe"},
                                             !.transcript = transcript,
                                             !.silent = IF noted /\ transcript = ""
                                                           THEN @ \cup {w[p].unit} ELSE @]
                  IN  IF TranscriptionFailed(transcript)
                         THEN /\ w' = [w EXCEPT ![p] =
                                         [called EXCEPT !.pc = "chunk", !.chunk_i = @ + 1]]
                              /\ svc_failed' = svc_failed \cup {"video"}
                         ELSE /\ w' = [w EXCEPT ![p] = [called EXCEPT !.pc = "embed"]]
                              /\ UNCHANGED svc_failed
    /\ UNCHANGED <<store, videos, doc_files, runs_done, insert_count, computed_ids>>
    /\ UNCHANGED notIngest

VideoTranscribe(p) == Transcribe(p, FALSE)

VideoTranscribeNoted(p) == Transcribe(p, TRUE)

\* 03, lines 197-221: the content set, the gate on its size, the Embedder
VideoEmbed(p) ==
    /\ w[p].pc = "embed"
    /\ LET input_content == InputContent(CurChunk(p))
       IN  IF ~EnoughContent(input_content)
              THEN /\ w' = [w EXCEPT ![p] = [@ EXCEPT !.pc = "chunk", !.chunk_i = @ + 1]]
                   /\ UNCHANGED svc_failed
              ELSE \E embedded \in BOOLEAN :
                      LET called == [w[p] EXCEPT !.unit_calls = @ \cup {"embed"},
                                                 !.embed_parts = Len(input_content)]
                      IN  IF embedded
                             THEN /\ w' = [w EXCEPT ![p] = [called EXCEPT !.pc = "insert"]]
                                  /\ UNCHANGED svc_failed
                             ELSE /\ w' = [w EXCEPT ![p] =
                                             [called EXCEPT !.pc = "chunk", !.chunk_i = @ + 1]]
                                  /\ svc_failed' = svc_failed \cup {"video"}
    /\ UNCHANGED <<store, videos, doc_files, runs_done, insert_count, computed_ids>>
    /\ UNCHANGED notIngest

\* 03, lines 223-244: insert_one; a failure is logged and the loop goes on
VideoInsert(p) ==
    /\ w[p].pc = "insert"
    /\ LET mongo_doc == VideoMongoDoc(CurVideo(p), CurChunk(p), w[p].transcript)
           unit == VideoUnit(CurVideo(p), CurChunk(p))
           called == [w[p] EXCEPT !.unit_calls = @ \cup {"insert"},
                                  !.pc = "chunk", !.chunk_i = @ + 1]
       IN  \E acknowledged \in BOOLEAN :
            /\ computed_ids' = [computed_ids EXCEPT ![unit] = @ \cup {mongo_doc._id}]
            /\ IF acknowledged /\ ~DuplicateKey(store, mongo_doc)
                 THEN /\ store' = InsertOne(store, mongo_doc)
                      /\ insert_count' = [insert_count EXCEPT ![unit] = @ + 1]
                      /\ w' = [w EXCEPT ![p] = [called EXCEPT !.inserted = @ \cup {unit}]]
                      /\ UNCHANGED svc_failed
                 ELSE /\ w' = [w EXCEPT ![p] =
                                 [called EXCEPT !.rejected =
                                     IF acknowledged THEN @ \cup {unit} ELSE @]]
                      /\ svc_failed' = svc_failed \cup {"video"}
                      /\ UNCHANGED <<store, insert_count>>
    /\ UNCHANGED <<videos, doc_files, runs_done>>
    /\ UNCHANGED notIngest

\* 04, lines 157-185: the next metadata file and the lookup of a document
\* record of its item; json.load (lines 170-171) and find_one (line 176) are
\* outside every try block
DocLookup(p) ==
    /\ w[p].pc = "file"
    /\ IF w[p].file_i > Len(doc_files)
          THEN /\ w' = [w EXCEPT ![p] = [@ EXCEPT !.pc = "finished"]]
               /\ UNCHANGED svc_failed
          ELSE IF ~CurFile(p).readable
          THEN /\ w' = [w EXCEPT ![p] = [@ EXCEPT !.pc = "aborted"]]
               /\ UNCHANGED svc_failed
          ELSE \E raises \in BOOLEAN :
                  LET here == [w[p] EXCEPT
                                 !.unit = DocUnit(CurFile(p)),
                                 !.unit_images = CurFile(p).images,
                                 !.reach_exists =
                                     \E d \in store : d.naId = CurFile(p).naId
                                                      /\ d.file_type \in {"pdf", "jpg", "gif"},
                                 !.unit_calls = {},
                                 !.embed_parts = 0]
                  IN  IF raises
                         THEN /\ w' = [w EXCEPT ![p] = [here EXCEPT !.pc = "aborted"]]
                              /\ svc_failed' = svc_failed \cup {"doc"}
                         ELSE /\ UNCHANGED svc_failed
                              /\ IF ItemAlreadyEmbedded(store, CurFile(p).naId)
                                    THEN w' = [w EXCEPT ![p] = [here EXCEPT !.file_i = @ + 1]]
                                    ELSE w' = [w EXCEPT ![p] = [here EXCEPT !.pc = "doc_embed"]]
    /\ UNCHANGED <<store, videos, doc_files, runs_done, insert_count, computed_ids>>
    /\ UNCHANGED notIngest

\* 04, lines 187-223: the images of every digital object are loaded; none:
\* the record is skipped; else one Embedder call for all of them
DocEmbed(p) ==
    /\ w[p].pc = "doc_embed"
    /\ IF CurFile(p).images = 0
          THEN /\ w' = [w EXCEPT ![p] = [@ EXCEPT !.pc = "file", !.file_i = @ + 1,
                                                 !.unit_calls = @ \cup {"load"}]]
               /\ UNCHANGED svc_failed
          ELSE \E embedded \in BOOLEAN :
                  LET called == [w[p] EXCEPT !.unit_calls = @ \cup {"load", "embed"},
                                             !.embed_parts = CurFile(p).images]
                  IN  IF embedded
                         THEN /\ w' = [w EXCEPT ![p] = [called EXCEPT !.pc = "doc_insert"]]
                              /\ UNCHANGED svc_failed
                         ELSE /\ w' = [w EXCEPT ![p] =
                                         [called EXCEPT !.pc = "file", !.file_i = @ + 1]]
                              /\ svc_failed' = svc_failed \cup {"doc"}
    /\ UNCHANGED <<store, videos, doc_files, runs_done, insert_count, computed_ids>>
    /\ UNCHANGED notIngest

\* 04, lines 225-245
DocInsert(p) ==
    /\ w[p].pc = "doc_insert"
    /\ LET mongo_doc == DocMongoDoc(CurFile(p))
           unit == DocUnit(CurFile(p))
           called == [w[p] EXCEPT !.unit_calls = @ \cup {"insert"},
                                  !.pc = "file", !.file_i = @ + 1]
       IN  \E acknowledged \in BOOLEAN :
            /\ computed_ids' = [computed_ids EXCEPT ![unit] = @ \cup {mongo_doc._id}]
            /\ IF acknowledged /\ ~DuplicateKey(store, mongo_doc)
                 THEN /\ store' = InsertOne(store, mongo_doc)
                      /\ insert_count' = [insert_count EXCEPT ![unit] = @ + 1]
                      /\ w' = [w EXCEPT ![p] = [called EXCEPT !.inserted = @ \cup {unit}]]
                      /\ UNCHANGED svc_failed
                 ELSE /\ w' = [w EXCEPT ![p] =
                                 [called EXCEPT !.rejected =
                                     IF acknowledged THEN @ \cup {unit} ELSE @]]
                      /\ svc_failed' = svc_failed \cup {"doc"}
                      /\ UNCHANGED <<store, insert_count>>
    /\ UNCHANGED <<videos, doc_files, runs_done>>
    /\ UNCHANGED notIngest

IngestNext ==
    \E p \in Workers :
        \/ StartRun(p)
        \/ EndRun(p)
        \/ VideoNextObject(p)
        \/ VideoLookup(p)
        \/ VideoTranscribe(p)
        \/ VideoEmbed(p)
        \/ VideoInsert(p)
        \/ DocLookup(p)
        \/ DocEmbed(p)
        \/ DocInsert(p)

\* the scripts run one after the other, with the chunks of empty transcript
\* remembered
SilentNext ==
    \E p \in Workers :
        \/ StartRun(p)
        \/ EndRun(p)
        \/ VideoNextObject(p)
        \/ VideoLookup(p)
        \/ VideoTranscribeNoted(p)
        \/ VideoEmbed(p)
        \/ VideoInsert(p)
        \/ DocLookup(p)
        \/ DocEmbed(p)
        \/ DocInsert(p)

\* two processes running the scripts at the same time against one collection
ConcurrentNext ==
    \E p \in Processes :
        \/ StartRun(p)
        \/ EndRun(p)
        \/ VideoNextObject(p)
        \/ VideoLookup(p)
        \/ VideoTranscribe(p)
        \/ VideoEmbed(p)
        \/ VideoInsert(p)
        \/ DocLookup(p)
        \/ DocEmbed(p)
        \/ DocInsert(p)

-----------------------------------------------------------------------------
(* Ingestion: runs repeated until the external services answer *)

\* the last run of a behaviour: by then MongoDB, Whisper and Voyage answer
LastRun == runs_done.video + runs_done.doc = MaxRuns - 1

\* the steps of the scripts, where in the last run the video script is
\* started with its configuration in place and no call to a service fails:
\* find_one and insert_one do not raise, Whisper returns a text, the Embedder
\* returns a vector. What is on disk is as it was.
ResumeStartRun(p) ==
    /\ StartRun(p)
    /\ LastRun => (w'[p].script = "video" /\ w'[p].configured)

ResumeVideoLookup(p) ==
    /\ VideoLookup(p)
    /\ LastRun => w'[p].pc # "aborted"

ResumeVideoTranscribe(p) ==
    /\ VideoTranscribe(p)
    /\ (LastRun /\ CurChunk(p).audio_exists) => w'[p].transcript \in Transcripts

ResumeVideoEmbed(p) ==
    /\ VideoEmbed(p)
    /\ (LastRun /\ EnoughContent(InputContent(CurChunk(p)))) => w'[p].pc = "insert"

ResumeVideoInsert(p) ==
    /\ VideoInsert(p)
    /\ LastRun => store' # store

ResumeNext ==
    \E p \in Workers :
        \/ ResumeStartRun(p)
        \/ EndRun(p)
        \/ VideoNextObject(p)
        \/ ResumeVideoLookup(p)
        \/ ResumeVideoTranscribe(p)
        \/ ResumeVideoEmbed(p)
        \/ ResumeVideoInsert(p)
        \/ DocLookup(p)
        \/ DocEmbed(p)
        \/ DocInsert(p)

-----------------------------------------------------------------------------
(* Specifications *)

InitAcq == AcqInit /\ SegIdle /\ store = {} /\ SearchIdle /\ ThreadsIdle /\ IngestIdle
SpecAcq == InitAcq /\ [][AcqNext]_vars

InitSeg == SegInit /\ store = {} /\ SearchIdle /\ ThreadsIdle /\ IngestIdle /\ AcqIdle
SpecSeg == InitSeg /\ [][SegNext]_vars

InitSearch == SegIdle /\ SearchInit /\ ThreadsIdle /\ IngestIdle /\ AcqIdle
SpecSearch == InitSearch /\ [][SearchNext]_vars

\* The web server answers requests on two threads; the collection is not
\* written meanwhile.
InitThreads ==
    /\ SegIdle
    /\ AcqIdle
    /\ IngestIdle
    /\ store = {}
    /\ ThreadsInit
    /\ searchPc = "off"
    /\ request = NoRequest
    /\ embedding = "unset"
    /\ vector_hits = <<>>
    /\ pre_rerank = <<>>
    /\ results = <<>>
    /\ rerank_outcome = "not_called"
    /\ rerank_texts = <<>>
    /\ response = NoResponse
    /\ calls = NoCalls
    /\ nreq = 0

SpecThreads == InitThreads /\ [][ThreadsNext]_vars

InitIngest == SegIdle /\ SearchIdle /\ ThreadsIdle /\ IngestInit /\ AcqIdle
SpecIngest == InitIngest /\ [][IngestNext]_vars

\* Runs one after the other over any of the video inputs and one document
\* item.
InitSilent ==
    /\ SegIdle
    /\ SearchIdle
    /\ ThreadsIdle
    /\ AcqIdle
    /\ store = {}
    /\ videos \in VideoWorlds
    /\ doc_files = << [dir |-> "jpg", naId |-> "N2", readable |-> TRUE, images |-> 1] >>
    /\ w = [p \in Processes |-> IdleWorker]
    /\ runs_done = [video |-> 0, doc |-> 0]
    /\ svc_failed = {}
    /\ insert_count = [u \in Units |-> 0]
    /\ computed_ids = [u \in Units |-> {}]

SpecSilent == InitSilent /\ [][SilentNext]_vars

\* Two runs at the same time over the same inputs: one video of one chunk and
\* one document item.
InitConcurrent ==
    /\ SegIdle
    /\ ThreadsIdle
    /\ SearchIdle
    /\ AcqIdle
    /\ store = {}
    /\ videos = << GoodVideo(1, [k \in 1..MaxChunks |-> AllFrames]) >>
    /\ doc_files = << [dir |-> "jpg", naId |-> "N2", readable |-> TRUE, images |-> 1] >>
    /\ w = [p \in Processes |-> IdleWorker]
    /\ runs_done = [video |-> 0, doc |-> 0]
    /\ svc_failed = {}
    /\ insert_count = [u \in Units |-> 0]
    /\ computed_ids = [u \in Units |-> {}]

SpecConcurrent == InitConcurrent /\ [][ConcurrentNext]_vars

\* The scripts are run again and again and a started script runs on: every
\* step that can be taken is taken in the end.
SpecResume == InitIngest /\ [][ResumeNext]_vars /\ WF_vars(ResumeNext)

\* The ingestion scripts and the web application running against the same
\* collection: one video of one chunk, one document item, requests served
\* while the scripts run.
InitSystem ==
    /\ SegIdle
    /\ ThreadsIdle
    /\ AcqIdle
    /\ store = {}
    /\ mongo \in { [mongo_client |-> b, db |-> b, collection |-> b] : b \in BOOLEAN }
    /\ searchPc = "idle"
    /\ request = NoRequest
    /\ embedding = "unset"
    /\ vector_hits = <<>>
    /\ pre_rerank = <<>>
    /\ results = <<>>
    /\ rerank_outcome = "not_called"
    /\ rerank_texts = <<>>
    /\ response = NoResponse
    /\ calls = NoCalls
    /\ nreq = 0
    /\ videos = << GoodVideo(1, [k \in 1..MaxChunks |-> AllFrames]) >>
    /\ doc_files = << [dir |-> "jpg", naId |-> "N2", readable |-> TRUE, images |-> 1] >>
    /\ w = [p \in Processes |-> IdleWorker]
    /\ runs_done = [video |-> 0, doc |-> 0]
    /\ svc_failed = {}
    /\ insert_count = [u \in Units |-> 0]
    /\ computed_ids = [u \in Units |-> {}]

SystemNext ==
    \/ IngestNext
    \/ SearchNext

SpecSystem == InitSystem /\ [][SystemNext]_vars

-----------------------------------------------------------------------------
(* Claims about the Segmenter *)

CeilDiv(a, b) == (a + b - 1) \div b

\* C3: for a video of duration D and chunk size S the manifest holds exactly
\* ceil(D/S) chunks, chunk i starts at i*S, the last chunk ends at D exactly
\* and every other chunk ends at start + S.
C3_PartitionAsClaimed ==
    segPc = "done" =>
        LET chunks == manifest[1]
            S == chunk_duration * TicksPerSecond
        IN  /\ Len(chunks) = CeilDiv(duration, S)
            /\ \A k \in 1..Len(chunks) :
                  /\ chunks[k].start_time = (k - 1) * S
                  /\ chunks[k].end_time =
                        IF k = Len(chunks) THEN duration ELSE chunks[k].start_time + S

\* C16: a run whose probe succeeded writes the manifest exactly once, after
\* every chunk was attempted and whatever extractions failed; the manifest
\* holds one entry for every chunk of the partition of [0, duration), in index
\* order, also for a chunk whose audio or frames could not be extracted.
C16_ManifestCoversPartition ==
    /\ segPc # "aborted"
    /\ seg_trace.manifest_writes <= 1
    /\ segPc \in {"probe", "loop", "write", "probe_failed"} => seg_trace.manifest_writes = 0
    /\ segPc \in {"write", "done"} =>
          /\ seg_i = Len(SegStarts(duration, chunk_duration))
          /\ \A i \in 0..(seg_i - 1) :
                \A o \in ChunkOutputs(i) : o \in DOMAIN seg_disk \/ o \in seg_trace.failed
    /\ segPc = "done" =>
          /\ seg_trace.manifest_writes = 1
          /\ Len(manifest) = 1
          /\ Len(manifest[1]) = CeilDiv(duration, chunk_duration * TicksPerSecond)
          /\ \A k \in 1..Len(manifest[1]) :
                /\ manifest[1][k].chunk_index = k - 1
                /\ manifest[1][k].chunk_id = ChunkName("v1", k - 1)
                /\ manifest[1][k].start_time = (k - 1) * chunk_duration * TicksPerSecond

\* C22: every frame extraction time start + j*(chunkDuration/framesPerChunk)
\* lies inside its chunk's window [start, end), the clamped final chunk
\* included, and so inside the video's duration.
C22_FrameTimesInsideChunk ==
    \A sk \in seg_trace.seeks :
        LET start_time == SegStarts(duration, chunk_duration)[sk[1] + 1]
            end_time == SegEndTime(start_time, chunk_duration, duration)
        IN  /\ start_time * TicksPerSecond * FramesPerChunk <= sk[3]
            /\ sk[3] < end_time * FramesPerChunk
            /\ sk[3] < duration * FramesPerChunk

\* C17 as claimed: a run leaves every audio clip, frame image and manifest
\* file that was on disk when it started as it was, and writes none of them
\* again.
C17_NothingOverwritten ==
    /\ \A o \in DOMAIN seg_trace.before :
          /\ o \in DOMAIN seg_disk
          /\ seg_disk[o] = seg_trace.before[o]
          /\ o \notin seg_trace.extracted
    /\ seg_trace.manifest_before # <<>> =>
          /\ seg_trace.manifest_writes = 0
          /\ manifest = seg_trace.manifest_before

\* C17 as amended: a run leaves every audio clip and frame image that was on
\* disk when it started as it was and runs ffmpeg only for the missing ones;
\* the manifest is written again by every run whose probe succeeds, with the
\* entries it had when the video and the chunk parameters are the same.
C17_MediaNeverOverwritten ==
    /\ \A o \in DOMAIN seg_trace.before :
          /\ o \in DOMAIN seg_disk
          /\ seg_disk[o] = seg_trace.before[o]
          /\ o \notin seg_trace.extracted
    /\ (seg_run >= 1 /\ segPc = "done") =>
          /\ seg_trace.manifest_writes = 1
          /\ seg_trace.manifest_before # <<>> => manifest = seg_trace.manifest_before

\* a second run has kept the frames of the first and extracted the audio clip
\* the first run failed on, and has written the manifest again
C17_Witness ==
    /\ segPc = "done"
    /\ seg_run = 1
    /\ seg_trace.manifest_before # <<>>
    /\ FramePath(0, 1) \in DOMAIN seg_trace.before
    /\ AudioPath(0) \notin DOMAIN seg_trace.before
    /\ seg_trace.extracted = {AudioPath(0)}
    /\ seg_disk[AudioPath(0)] = "complete"

-----------------------------------------------------------------------------
(* Claims about the query pipeline *)

Answered == searchPc = "done"
AnsweredOk == searchPc = "done" /\ response.status = 200

NaIds(seq) == [k \in 1..Len(seq) |-> seq[k].naId]
IdSet(seq) == { seq[k].naId : k \in 1..Len(seq) }

\* a is b with some elements left out, the order kept (no naId occurs twice)
IsSubsequence(a, b) ==
    LET ids == IdSet(a)
    IN  /\ ids \subseteq IdSet(b)
        /\ NaIds(a) = NaIds(SelectSeq(b, LAMBDA x : x.naId \in ids))

DescendingScore(seq) ==
    \A i, j \in 1..Len(seq) : i < j => seq[i].score >= seq[j].score

FilterSet == { request.filter_file_types[k] : k \in 1..Len(request.filter_file_types) }

\* C4: when the Reranker call fails (it raises, or its indices cannot be
\* applied) the request is still answered with 200 and the results are in the
\* order the vector search gave them, by descending score.
C4_RerankFallback ==
    (Answered /\ rerank_outcome \in {"raised", "index_error"}) =>
        /\ response.status = 200
        /\ response.error = ""
        /\ NaIds(response.body) = NaIds(pre_rerank)
        /\ DescendingScore(response.body)

C4_Witness ==
    /\ AnsweredOk
    /\ rerank_outcome = "index_error"
    /\ Len(response.body) >= 2

C7_ReturnedIsSubsequence ==
    AnsweredOk =>
        /\ Len(vector_hits) <= 50
        /\ IsSubsequence(response.body, vector_hits)

\* C7 as amended: the list the store query returns is a subsequence of the 50
\* nearest-neighbour results, and the returned list holds exactly those
\* records (in another order when the Reranker succeeded): at most 50, and
\* never a record outside the 50 nearest.
C7_FilterAfterLimit ==
    searchPc \in {"rerank", "respond", "done"} /\ response.status \in {0, 200} =>
        /\ Len(vector_hits) <= 50
        /\ \A k \in 1..Len(vector_hits) : vector_hits[k] \in store
        /\ LET hit_ids == IdSet(vector_hits)
           IN  \A d \in store :
                  d.naId \notin hit_ids =>
                      Score(d) <= Score(vector_hits[Len(vector_hits)])
        /\ DescendingScore([k \in 1..Len(vector_hits) |-> [score |-> Score(vector_hits[k])]])
        /\ IsSubsequence(pre_rerank, vector_hits)
        /\ IdSet(results) = IdSet(pre_rerank)
        /\ Len(results) = Len(pre_rerank)
        /\ Len(results) <= 50

\* a matching document lies outside the 50 nearest and fewer than 50 are returned
C7_Witness ==
    /\ AnsweredOk
    /\ request.has_filter
    /\ Len(response.body) < 50
    /\ \E d \in store :
          /\ d.file_type \in FilterSet
          /\ d.naId \notin IdSet(vector_hits)

\* C8: the Reranker is called exactly when use_reranker is true (or omitted)
\* and the store query returned at least 2 results; without a rerank call the
\* results are returned by descending score.
C8_RerankIff ==
    /\ calls.rerank <= 1
    /\ searchPc \in {"respond", "done"} /\ response.status \in {0, 200} =>
          /\ (calls.rerank = 1) <=>
                (request.use_reranker \in {"absent", "true"} /\ Len(pre_rerank) >= 2)
          /\ (calls.rerank = 0) => NaIds(results) = NaIds(pre_rerank)
          /\ (calls.rerank = 0) => DescendingScore(results)
    /\ (calls.rerank = 0) <=> (rerank_outcome = "not_called")
    /\ response.status \notin {0, 200} => calls.rerank = 0

C8_Witness ==
    /\ AnsweredOk
    /\ calls.rerank = 1
    /\ request.use_reranker = "absent"
    /\ Len(response.body) = 2

\* C9: a request without query text is answered 400 'query_text is required'
\* at once: no Embedder call, no init_mongo, no store access, no Reranker call.
C9_MissingInputNoEffects ==
    (searchPc \notin {"idle", "off"} /\ ~(request.has_data /\ request.has_query_text)) =>
        /\ calls = NoCalls
        /\ searchPc \in {"validate", "done"}
        /\ embedding = "unset"
        /\ searchPc = "done" =>
              response = [status |-> 400, error |-> "query_text is required", body |-> <<>>]

C9_Witness ==
    /\ Answered
    /\ request.has_data
    /\ ~request.has_query_text
    /\ response.status = 400
    /\ ~mongo.collection

\* C10 as claimed: every request ends in a result list or in one of the
\* errors missing-input, embedding-failure, store-unavailable; a store failure
\* (connection or query) gives store-unavailable.
C10_ThreeErrors ==
    Answered =>
        \/ response.status = 200 /\ response.error = ""
        \/ response.error \in { "query_text is required",
                                "Failed to generate embedding",
                                "Database connection failed" }

\* C10 as amended: every request ends in a result list or in exactly one of
\* four errors: missing-input (400), embedding-failure, store-unavailable
\* when init_mongo fails, and 'Internal server error' when a store query
\* (count_documents, aggregate) raises.
C10_OutcomeByCause ==
    Answered =>
        IF ~(request.has_data /\ request.has_query_text)
            THEN response = ErrorResponse(400, "query_text is required")
        ELSE IF embedding \in {"None", "empty"}
            THEN response = ErrorResponse(500, "Failed to generate embedding")
        ELSE IF calls.init_mongo = 1 /\ ~mongo.collection
            THEN response = ErrorResponse(500, "Database connection failed")
        ELSE IF calls.raised # "none"
            THEN response = ErrorResponse(500, "Internal server error")
        ELSE /\ response.status = 200
             /\ response.error = ""
             /\ calls.aggregate = 1

C10_Witness ==
    /\ Answered
    /\ calls.raised = "aggregate"
    /\ response = ErrorResponse(500, "Internal server error")

\* the record of the collection a result was projected from
StoredOf(r) == CHOOSE d \in store : d._id = r._id

\* C19: no response holds the embedding vector of a record: every returned
\* result has the projected display fields, the score and an identifier in
\* string form, and nothing else.
C19_NoEmbeddingInResponse ==
    \A k \in 1..Len(response.body) :
        /\ DOMAIN response.body[k] = {"_id", "naId", "title", "file_type", "score"}
        /\ response.body[k]._id.type = "str"
        /\ \E d \in store :
              /\ d._id.val = response.body[k]._id.val
              /\ response.body[k].naId = d.naId
              /\ response.body[k].title = d.title
              /\ response.body[k].file_type = d.file_type
              /\ response.body[k].score = Score(d)

\* a reranked answer of two results, one of them stored under an ObjectId
C19_Witness ==
    /\ AnsweredOk
    /\ rerank_outcome = "ok"
    /\ Len(response.body) = 2
    /\ \E k \in 1..2 : StoredOf(pre_rerank[k])._id.type = "ObjectId"

\* the text surrogate the spec describes for a stored record: its transcript,
\* else its title, else the empty string
Surrogate(d) ==
    IF Truthy(PyGet(d, "chunk_text_content")) THEN d.chunk_text_content
    ELSE IF Truthy(PyGet(d, "title")) THEN d.title
    ELSE ""

\* C20: when search reranks, the text passed to the Reranker for each result
\* is the stored record's transcript when it has one, otherwise its title,
\* otherwise the empty string.
C20_RerankOnTranscript ==
    calls.rerank > 0 =>
        /\ Len(rerank_texts) = Len(pre_rerank)
        /\ \A k \in 1..Len(pre_rerank) :
              rerank_texts[k] = Surrogate(StoredOf(pre_rerank[k]))

\* a and b hold the same elements, each as often in one as in the other
SameElements(a, b) ==
    /\ Len(a) = Len(b)
    /\ \A k \in 1..Len(a) :
          Cardinality({j \in 1..Len(b) : b[j] = a[k]}) =
          Cardinality({j \in 1..Len(a) : a[j] = a[k]})

\* C26: when reranking succeeds the list that is returned is a permutation of
\* the list before reranking: every result once, none dropped, duplicated or
\* added.
C26_RerankPermutes ==
    rerank_outcome = "ok" =>
        /\ searchPc = "respond" => SameElements(pre_rerank, results)
        /\ Answered =>
              /\ response.status = 200
              /\ SameElements(NormalizeIds(pre_rerank), response.body)

\* a reranked answer in another order than the vector search gave
C26_Witness ==
    /\ AnsweredOk
    /\ rerank_outcome = "ok"
    /\ Len(response.body) >= 2
    /\ NaIds(response.body) # NaIds(pre_rerank)

\* C24: under every interleaving of concurrent requests the shared store
\* handle is created at most once and then reused, and no request runs its
\* store query while client, database or collection is unset.
C24_HandleCreatedOnce ==
    /\ clients_created <= 1
    /\ \A t \in Threads :
          /\ threads[t].pc = "query" => mongo = HandleSet
          /\ ~threads[t].queried_unset

-----------------------------------------------------------------------------
(* Claims about the ingestion *)

\* C1 as claimed: a second run of a script over the same inputs performs no
\* successful insert.
C1_SecondRunInsertsNothing ==
    \A p \in Workers : w[p].nth >= 1 => w[p].inserted = {}

\* C1 as amended: no item or chunk is ever inserted twice, and a later run of
\* a script inserts nothing when no earlier run of it had a failing
\* Transcriber, Embedder or Index Store call or ended on its configuration.
C1_Idempotent ==
    /\ \A u \in Units : insert_count[u] <= 1
    /\ \A p \in Workers :
          (w[p].nth >= 1 /\ w[p].clean_before) => w[p].inserted = {}

\* a second video run, after a first one that stored the first chunk, has
\* gone through the video and inserted nothing
C1_Witness ==
    \E p \in Workers :
        /\ w[p].pc = "finished"
        /\ w[p].script = "video"
        /\ w[p].nth = 1
        /\ w[p].clean_before
        /\ w[p].video_i > Len(videos)
        /\ insert_count[<<"N1", ChunkName("v1", 0)>>] = 1
        /\ w[p].inserted = {}

\* C2: in video ingestion a chunk whose record id is in the store when the
\* chunk is reached gets no Transcriber, Embedder or insert call.
C2_ExistingChunkNoCalls ==
    \A p \in Workers :
        (w[p].script = "video" /\ w[p].reach_exists) =>
            /\ w[p].unit_calls = {}
            /\ w[p].pc \notin {"audio", "embed", "insert"}

C2_Witness ==
    \E p \in Workers :
        /\ w[p].script = "video"
        /\ w[p].reach_exists
        /\ w[p].unit = <<"N1", ChunkName("v1", 0)>>
        /\ w[p].chunk_i = 2
        /\ w[p].pc = "chunk"

\* C6: in video ingestion the Embedder is never called with fewer than 2
\* content parts; a chunk none of whose frames loads gets no Embedder call and
\* no insert, and never has a record.
C6_MinimumContent ==
    /\ \A p \in Workers :
          w[p].script = "video" =>
              /\ "embed" \in w[p].unit_calls => w[p].embed_parts >= 2
              /\ w[p].unit_images = 0 =>
                    w[p].unit_calls \cap {"embed", "insert"} = {}
    /\ \A v \in 1..Len(videos) : \A k \in 1..Len(videos[v].chunks) :
          Loadable(videos[v].chunks[k]) = {} =>
              insert_count[<<videos[v].naId, videos[v].chunks[k].chunk_id>>] = 0

\* a chunk with a transcript and no loadable frame has been skipped
C6_Witness ==
    \E p \in Workers :
        /\ w[p].script = "video"
        /\ w[p].unit = <<"N1", ChunkName("v1", 0)>>
        /\ w[p].unit_images = 0
        /\ w[p].chunk_i = 2
        /\ w[p].pc = "chunk"
        /\ w[p].transcript = "text"
        /\ w[p].unit_calls = {"transcribe"}

\* C11: the record id ingestion computes for a chunk is always
\* itemId + "_" + chunkId and for a whole-document item the item id alone,
\* whatever the transcript, the run or the contents of the store; every
\* record ingestion stored carries the id of its key.
C11_IdFromKeyOnly ==
    /\ \A u \in Units :
          computed_ids[u] \subseteq
              { IF u[2] = "document"
                   THEN [type |-> "str", val |-> u[1]]
                   ELSE [type |-> "str", val |-> u[1] \o "_" \o u[2]] }
    /\ \A d \in store :
          IF d.file_type = "video_chunk"
             THEN \E u \in Units :
                     /\ u[1] = d.naId
                     /\ u[2] # "document"
                     /\ d._id = [type |-> "str", val |-> u[1] \o "_" \o u[2]]
                     /\ insert_count[u] = 1
             ELSE /\ d._id = [type |-> "str", val |-> d.naId]
                  /\ insert_count[<<d.naId, "document">>] = 1

\* a second video run computes the id of the first chunk again, for another
\* transcript and with a record of the second chunk in the store
C11_Witness ==
    \E p \in Workers :
        /\ w[p].script = "video"
        /\ w[p].nth = 1
        /\ w[p].unit = <<"N1", ChunkName("v1", 0)>>
        /\ "insert" \in w[p].unit_calls
        /\ w[p].transcript = "other text"
        /\ insert_count[<<"N1", ChunkName("v1", 1)>>] = 1
        /\ \E d \in store : d._id = [type |-> "str", val |-> "N1_v1_chunk_000"]
        /\ computed_ids[<<"N1", ChunkName("v1", 0)>>] =
              {[type |-> "str", val |-> "N1_v1_chunk_000"]}

\* C12: no step of the system changes or removes a record the Index Store
\* holds: ingestion only adds records and a search request leaves the store
\* as it is.
C12_StoreOnlyGrows ==
    [][ /\ store \subseteq store'
        /\ (searchVars' # searchVars) => store' = store ]_vars

\* a request has been answered with results from a store that ingestion
\* filled with several records
C12_Witness ==
    /\ Cardinality(store) >= 2
    /\ AnsweredOk
    /\ Len(response.body) >= 2
    /\ \E p \in Workers : w[p].inserted # {}

\* C14: once a run is past its configuration checks nothing ends it early: a
\* failing store call, transcription, embedding, insert or read of a metadata
\* or manifest file skips the chunk or item, and the run finishes having gone
\* through every video, chunk and item.
C14_OnlyConfigurationAborts ==
    \A p \in Workers :
        w[p].configured =>
            /\ w[p].pc # "aborted"
            /\ w[p].pc = "finished" =>
                  IF w[p].script = "video"
                     THEN w[p].video_i > Len(videos)
                     ELSE w[p].file_i > Len(doc_files)

\* C18: the store never holds two document-kind records (pdf, jpg, gif) of
\* one item id, also when the item has metadata files in several
\* directories; an item that has such a record when it is reached gets no
\* image loading, no Embedder call and no insert.
C18_OneDocumentRecordPerItem ==
    /\ \A d1, d2 \in store :
          ( /\ d1.file_type \in {"pdf", "jpg", "gif"}
            /\ d2.file_type \in {"pdf", "jpg", "gif"}
            /\ d1.naId = d2.naId ) => d1 = d2
    /\ \A p \in Workers :
          (w[p].script = "doc" /\ w[p].reach_exists) =>
              /\ w[p].unit_calls = {}
              /\ w[p].pc \notin {"doc_embed", "doc_insert"}

\* item N2 was stored from its jpg metadata file and then skipped when its
\* pdf metadata file, which has images, was reached
C18_Witness ==
    \E p \in Workers :
        /\ w[p].script = "doc"
        /\ w[p].reach_exists
        /\ w[p].unit = <<"N2", "document">>
        /\ w[p].file_i = 3
        /\ doc_files[2].naId = "N2"
        /\ doc_files[2].images = 2
        /\ <<"N2", "document">> \in w[p].inserted
        /\ \E d \in store : d.naId = "N2" /\ d.file_type = "jpg"

\* C27: a chunk whose transcription returns an empty text is skipped like one
\* whose transcription failed: no embed call and no insert for it, no record
\* is stored with an empty transcript, and every later run that comes to the
\* chunk and finds no record of it calls the Transcriber for it again.
C27_EmptyTranscriptIsFailure ==
    /\ \A d \in store : d.file_type = "video_chunk" => d.chunk_text_content \in Transcripts
    /\ \A p \in Workers :
          /\ (w[p].script = "video" /\ w[p].transcript \in {"", "None"}) =>
                /\ w[p].unit_calls \subseteq {"transcribe"}
                /\ w[p].unit \notin w[p].inserted
                /\ w[p].pc \notin {"embed", "insert"}
          /\ (/\ w[p].script = "video"
               /\ w[p].nth >= 1
               /\ w[p].unit \in w[p].silent
               /\ ~w[p].reach_exists
               /\ w[p].pc \in {"embed", "insert", "chunk", "video", "finished"}) =>
                "transcribe" \in w[p].unit_calls

\* a second run has transcribed a chunk again that the first run skipped
\* for its empty transcript; the text is empty again and there is no record
C27_Witness ==
    \E p \in Workers :
        /\ w[p].script = "video"
        /\ w[p].nth = 1
        /\ w[p].pc = "chunk"
        /\ w[p].transcript = ""
        /\ w[p].unit_calls = {"transcribe"}
        /\ w[p].clean_before = FALSE
        /\ w[p].unit \in w[p].silent
        /\ store = {}

\* the chunks of the manifests that have an audio file and a frame that loads
EligibleChunks ==
    { <<v, c>> \in (1..Len(videos)) \X (1..MaxChunks) :
        /\ videos[v].has_manifest
        /\ c <= Len(videos[v].chunks)
        /\ videos[v].chunks[c].audio_exists
        /\ Loadable(videos[v].chunks[c]) # {} }

RecordsOf(v, c) ==
    { d \in store : d._id = VideoRecordId(videos[v].naId, videos[v].chunks[c].chunk_id) }

\* C21: when the runs are repeated and the services answer in the end, every
\* manifest chunk with an audio file and a loadable frame ends with exactly
\* one record, and a chunk skipped on a failing call has none until then.
C21_EveryChunkStoredInTheEnd ==
    <>[](\A vc \in EligibleChunks : Cardinality(RecordsOf(vc[1], vc[2])) = 1)

\* the insert a process is about to make
PendingDoc(p) ==
    IF w[p].pc = "insert"
        THEN VideoMongoDoc(CurVideo(p), CurChunk(p), w[p].transcript)
        ELSE DocMongoDoc(CurFile(p))

\* C23: with two runs at the same time the collection never holds two records
\* with one record id, whatever the interleaving; an insert that meets the id
\* of a stored record changes nothing and the run goes on with the next chunk
\* or item.
C23_UniqueIdUnderRace ==
    [][ /\ \A d1 \in store', d2 \in store' : d1._id = d2._id => d1 = d2
        /\ \A p \in Processes :
              (/\ w[p].pc \in {"insert", "doc_insert"}
               /\ w'[p] # w[p]
               /\ DuplicateKey(store, PendingDoc(p)))
              => /\ store' = store
                 /\ w'[p].pc = IF w[p].pc = "insert" THEN "chunk" ELSE "file"
                 /\ w'[p].chunk_i + w'[p].file_i = w[p].chunk_i + w[p].file_i + 1
                 /\ w'[p].inserted = w[p].inserted ]_vars

\* both processes embedded the same chunk; the first insert stored it and
\* the second was rejected
C23_Witness ==
    \E p \in Processes, q \in Processes, u \in Units :
        /\ p # q
        /\ u \in w[p].inserted
        /\ u \in w[q].rejected
        /\ w[q].unit = u
        /\ "embed" \in w[q].unit_calls
        /\ w[q].pc \notin {"aborted", "idle"}
        /\ Cardinality(store) = 1

-----------------------------------------------------------------------------
(* Claims about the Acquirer *)

\* C13: a catalog item whose metadata file exists under the current media
\* type when it is reached gets no download and no metadata write; so a run
\* downloads nothing and writes no metadata for an item an earlier run
\* persisted.
C13_PersistedItemSkipped ==
    /\ acq_trace.reach_exists =>
          /\ acq_trace.item_ops = {}
          /\ acqPc \notin {"object", "save"}
    /\ \A op \in acq_trace.ops : <<op[1], op[2]>> \notin acq_trace.persisted_before

\* a second run has gone through the jpg hits and skipped item A1, persisted
\* by the first run, although its file f1 is not on disk
C13_Witness ==
    /\ acq_run = 1
    /\ acqPc = "complete"
    /\ <<"jpg", "A1">> \in acq_trace.persisted_before
    /\ acq_trace.api["jpg"] = "ok"
    /\ catalog["jpg"][1].naId = "A1"
    /\ <<3, 1>> \in acq_trace.visited
    /\ media_files[<<"jpg", "f1">>] = "absent"
    /\ \A op \in acq_trace.ops : op[2] # "A1" \/ op[1] # "jpg"

\* C15: a failed download or a failed Catalog API call never ends the run:
\* the run completes, every media type gets its API call, every hit of a
\* type whose call succeeded is reached, and every digital object of a hit
\* that is gone through is reached, whatever failed before it.
C15_FailuresDoNotAbort ==
    /\ acqPc # "aborted"
    /\ \A x \in acq_trace.failed_downloads :
          acqPc = "object" /\ acq_t = x[1] /\ acq_r = x[2] => acq_o > x[3]
    /\ acqPc = "complete" =>
          /\ acq_t = Len(MEDIA_TYPES) + 1
          /\ \A k \in 1..Len(MEDIA_TYPES) :
                MEDIA_TYPES[k] \in CatalogTypes =>
                    /\ acq_trace.api[MEDIA_TYPES[k]] # "not_called"
                    /\ acq_trace.api[MEDIA_TYPES[k]] = "ok" =>
                          \A r \in 1..Len(catalog[MEDIA_TYPES[k]]) :
                              <<k, r>> \in acq_trace.visited
          /\ \A x \in acq_trace.entered :
                LET record == catalog[MEDIA_TYPES[x[1]]][x[2]]
                IN  /\ \A o \in 1..Len(record.digitalObjects) :
                          <<x[1], x[2], o>> \in acq_trace.obj_visited
                    /\ record.naId # "None" =>
                          <<MEDIA_TYPES[x[1]], record.naId, "write">> \in acq_trace.ops

\* a run has completed although the mp4 API call failed and the download of
\* the first object of the first jpg hit failed: the second object and the
\* second hit were still reached
C15_Witness ==
    /\ acqPc = "complete"
    /\ acq_trace.api["mp4"] = "failed"
    /\ acq_trace.api["jpg"] = "ok"
    /\ <<3, 1, 1>> \in acq_trace.failed_downloads
    /\ <<3, 1, 2>> \in acq_trace.obj_visited
    /\ <<3, 2>> \in acq_trace.visited

\* the hits of the current run whose digital objects have been gone through
\* and left behind
HitPassed(x) == ~(acq_t = x[1] /\ acq_r = x[2] /\ acqPc \in {"object", "save"})

\* an item with an identifier is persisted once its objects were gone
\* through, with every object it lists, also those whose download failed
PersistedDespiteFailure ==
    \A x \in acq_trace.failed_downloads :
        LET media_type == MEDIA_TYPES[x[1]]
            record == catalog[media_type][x[2]]
        IN  (HitPassed(x) /\ record.naId # "None") =>
                /\ meta_files[<<media_type, record.naId>>] # "absent"
                /\ \E k \in 1..Len(meta_files[<<media_type, record.naId>>]) :
                      meta_files[<<media_type, record.naId>>][k] = record.digitalObjects[x[3]]

\* C25: an item's metadata file is written whether or not its downloads
\* succeeded; once it exists the item is skipped, so no later step downloads
\* on its behalf or rewrites its metadata, and a file left incomplete by a
\* failed download stays as it is.
C25_FailedDownloadNeverRetried ==
    /\ []PersistedDespiteFailure
    /\ [][ /\ \A k \in MetaKeys :
                meta_files[k] # "absent" =>
                    /\ meta_files'[k] = meta_files[k]
                    /\ ~(acqPc' \in {"object", "save"} /\ <<CurType', CurRecord'.naId>> = k)
            /\ \A f \in FileKeys :
                media_files[f] = "partial" => media_files'[f] = "partial" ]_vars

\* a second run has completed; item A1 of the mp4 records was persisted by
\* the first run although the download of its file f1 broke off, and the
\* second run has left both as they were
C25_Witness ==
    /\ acq_run = 1
    /\ acqPc = "complete"
    /\ <<"mp4", "A1">> \in acq_trace.persisted_before
    /\ meta_files[<<"mp4", "A1">>] = <<"f1">>
    /\ media_files[<<"mp4", "f1">>] = "partial"
    /\ <<1, 1>> \in acq_trace.visited
    /\ <<1, 1>> \notin acq_trace.entered
    /\ \A op \in acq_trace.ops : op[1] # "mp4"

====
